---- MODULE Spec2Model ----
(***************************************************************************)
(* LAD-A2A reference client: the discovery / verification / consent        *)
(* pipeline of reference/client/lad_client.py, with the token verification *)
(* of reference/common/signing.py that it calls.                           *)
(*                                                                         *)
(* Strings whose characters the code inspects (URLs, organizations) are    *)
(* sequences of one-character strings.  Python's None is the string "None" *)
(* for string-valued fields and the empty sequence for Optional[dict]      *)
(* fields (<<c>> is a present card c).  DiscoveredAgent objects live in    *)
(* `heap`; lists hold object ids, so that two lists can share an object.   *)
(***************************************************************************)
EXTENDS Integers, Sequences, FiniteSets, TLC

\* ------------------------------------------------------------------ bounds

\* Most DiscoveredAgent objects created during one discover() call.
MaxAgents == 2
\* Most listener callbacks delivered during one mDNS window.
MaxEvents == 2

\* ----------------------------------------------------------------- strings

None == "None"

UpperChars == <<"A","B","C","D","E","F","G","H","I","J","K","L","M",
                "N","O","P","Q","R","S","T","U","V","W","X","Y","Z">>
LowerChars == <<"a","b","c","d","e","f","g","h","i","j","k","l","m",
                "n","o","p","q","r","s","t","u","v","w","x","y","z">>

\* str.lower() on one character.
LowerChar(c) ==
    IF \E i \in 1..Len(UpperChars) : UpperChars[i] = c
    THEN LowerChars[CHOOSE i \in 1..Len(UpperChars) : UpperChars[i] = c]
    ELSE c

\* str.lower()
Lower(s) == [i \in 1..Len(s) |-> LowerChar(s[i])]

\* str.replace(" ", "")
StripSpaces(s) == SelectSeq(s, LAMBDA c : c # " ")

\* str.startswith(p)
StartsWith(s, p) == Len(p) <= Len(s) /\ SubSeq(s, 1, Len(p)) = p

\* str.endswith(p)
EndsWith(s, p) == Len(p) <= Len(s) /\ SubSeq(s, Len(s) - Len(p) + 1, Len(s)) = p

\* p in s
Contains(s, p) ==
    \E i \in 0..(Len(s) - Len(p)) : SubSeq(s, i + 1, i + Len(p)) = p

\* Index of the first character of s that is in `chars`, Len(s)+1 when none.
FirstOf(s, chars) ==
    IF \E i \in 1..Len(s) : s[i] \in chars
    THEN CHOOSE i \in 1..Len(s) : s[i] \in chars /\ \A j \in 1..(i - 1) : s[j] \notin chars
    ELSE Len(s) + 1

\* str.split(sep)[0] for a one-character separator.
SplitFirst(s, sep) == SubSeq(s, 1, FirstOf(s, {sep}) - 1)

\* str.rstrip("/")
RECURSIVE RStripSlash(_)
RStripSlash(s) ==
    IF s # <<>> /\ s[Len(s)] = "/" THEN RStripSlash(SubSeq(s, 1, Len(s) - 1)) ELSE s

HttpPrefix == <<"h","t","t","p",":","/","/">>
HttpsPrefix == <<"h","t","t","p","s",":","/","/">>

\* urlparse(url).netloc: what follows "scheme://" up to the next "/", "?" or "#".
Netloc(url) ==
    LET colon == FirstOf(url, {":"})
        rest  == SubSeq(url, colon + 1, Len(url))
    IN  IF colon <= Len(url) /\ StartsWith(rest, <<"/","/">>)
        THEN LET after == SubSeq(rest, 3, Len(rest))
             IN  SubSeq(after, 1, FirstOf(after, {"/","?","#"}) - 1)
        ELSE <<>>

\* ------------------------------------------------------------- input data

DefaultPath == <<"/",".","w","e","l","l","-","k","n","o","w","n","/","a","g","e","n","t",".","j","s","o","n">>
WellKnownRel == <<".","w","e","l","l","-","k","n","o","w","n","/","l","a","d","/","a","g","e","n","t","s">>

OrgGrand == <<"g","r","a","n","d","h","o","t","e","l",".","c","o","m">>
OrgGrandSpaced == <<"G","r","a","n","d"," ","H","o","t","e","l">>
OrgBlank == <<" ">>
OrgEvil == <<"e","v","i","l",".","o","r","g">>

UrlAiGrand == <<"h","t","t","p","s",":","/","/","a","i",".","g","r","a","n","d","h","o","t","e","l",".","c","o","m","/","c","a","r","d">>
UrlAiGrandHttp == <<"h","t","t","p",":","/","/","a","i",".","g","r","a","n","d","h","o","t","e","l",".","c","o","m","/","c","a","r","d">>
UrlUserinfo == <<"h","t","t","p",":","/","/","g","r","a","n","d","h","o","t","e","l",".","c","o","m",":","x","@","e","v","i","l",".","o","r","g","/","c","a","r","d">>
BaseHttp == <<"h","t","t","p",":","/","/","l","o","c","a","l","h","o","s","t",":","8","0","8","0">>
BaseHttps == <<"h","t","t","p","s",":","/","/","h","o","t","e","l",".","e","x","a","m","p","l","e",".","c","o","m","/">>
Host1 == <<"1","2","7",".","0",".","0",".","1">>
Port1 == <<"8","0","0","1">>
Port2 == <<"8","0","0","2">>

\* A list-like member of a card: a Python list or tuple on the signer's side,
\* an array in the JSON text of a token.
PyValue(type, items) == [type |-> type, items |-> items]
PyList(items) == PyValue("list", items)
PyTuple(items) == PyValue("tuple", items)

\* json.dumps, as jwt.encode applies it to the payload: a list and a tuple are
\* both written as an array.
JsonDumps(v) == PyValue("array", v.items)

\* json.loads, as jwt.decode applies it: an array is read as a list.
JsonLoads(j) == PyList(j.items)

\* AgentCards a server may answer with: the fields the client reads and the
\* skills member.
Card(name, org) == [name |-> name, organization |-> org, skills |-> PyList(<<>>)]

\* A card in the JSON text of a payload, and read back from it; strings are
\* written and read unchanged.
DumpCard(card) == [card EXCEPT !.skills = JsonDumps(card.skills)]
LoadCard(json) == [json EXCEPT !.skills = JsonLoads(json.skills)]
Cards == { Card("Grand Azure Hotel", OrgGrand),
           Card("Grand Azure Hotel", OrgGrandSpaced),
           Card("Blank", OrgBlank),
           Card("Evil", OrgEvil),
           Card("NoProvider", <<>>) }

\* Key pairs: a public key file holds the public half of the pair it names.
TrustedKey == "k_trusted"
AttackerKey == "k_attacker"
Keys == {TrustedKey, AttackerKey}
PubKeyPath == "keys/public.pem"
MissingKeyPath == "keys/missing.pem"

\* ---------------------------------------------------------------- signing

\* SigningConfig.algorithm and verify_agent_card's default allow-list.
ES256 == "ES256"
DefaultAlgorithms == {ES256}

\* An algorithm a signer may configure that is not on the default allow-list.
ES384 == "ES384"

\* SigningConfig(enabled=True, private_key_path=<private half of key>, ...)
SigningConfig(key, key_id, algorithm) ==
    [private_key |-> key, key_id |-> key_id, algorithm |-> algorithm]

\* A signature computed over the decoded claims instead of the segment text.
SignatureOverClaims(key, alg, kid, payload) ==
    [key |-> key, alg |-> alg, kid |-> kid, payload |-> [payload EXCEPT !.segment = <<>>]]

\* The signature jwt.encode computes: it binds key, header and payload.
Signature(key, alg, kid, payload) ==
    [key |-> key, alg |-> alg, kid |-> kid, payload |-> payload]

\* The base64url alphabet, as far as the tokens here use it.
Base64UrlChars == {"e", "y", "J", "h", "i", "X"}

\* The payload segment jwt.encode writes, shortened to its first characters:
\* base64url text that depends on the claims.
PayloadSegment(now) == <<"e", "y", "J", IF now = 1 THEN "h" ELSE "i">>

\* base64url_decode of a segment: characters outside the alphabet are
\* dropped and leave a length that is not a whole number of groups.
SegmentDecodes(segment) == \A i \in 1..Len(segment) : segment[i] \in Base64UrlChars

\* sign_agent_card: payload {agent_card, iat} as JSON, a kid header if
\* config.key_id is set and not empty, signed with config.algorithm.  The
\* signature is computed over the segment text.
SignAgentCard(card, config, now) ==
    LET payload == [agent_card |-> <<DumpCard(card)>>, iat |-> now, expired |-> FALSE,
                    segment |-> PayloadSegment(now)]
        kid == IF config.key_id \in {None, ""} THEN None ELSE config.key_id
    IN  [wellformed |-> TRUE, alg |-> config.algorithm, kid |-> kid, payload |-> payload,
         sig |-> Signature(config.private_key, config.algorithm, kid, payload)]

\* A response body that is not a three-segment token.
MalformedToken ==
    [wellformed |-> FALSE, alg |-> None, kid |-> None,
     payload |-> [agent_card |-> <<>>, iat |-> 0, expired |-> FALSE, segment |-> <<>>],
     sig |-> Signature(None, None, None,
                       [agent_card |-> <<>>, iat |-> 0, expired |-> FALSE, segment |-> <<>>])]

\* A token whose payload segment was replaced after signing.
TamperPayload(token, card) ==
    [token EXCEPT !.payload.agent_card = <<DumpCard(card)>>]

\* The characters a tamperer writes: one of the alphabet, one outside it.
TamperChars == {"X", "!"}

\* One character of the payload segment overwritten after signing; header
\* and signature segments are left as they were.  The claims the changed text
\* decodes to are not read before the signature is checked.
TamperChar(token, i, ch) ==
    [token EXCEPT !.payload.segment[i] = ch]

\* load_public_key: the key a readable file holds; an unreadable path raises.
KeyFileReadable(path) == path = PubKeyPath
LoadPublicKey(path) == TrustedKey

\* VerificationResult; signed_at and key_id default to None (signed_at is
\* <<>> when None and <<t>> when set).
VResult(valid, card, error, raised) ==
    [valid |-> valid, agent_card |-> card, error |-> error, raised |-> raised,
     signed_at |-> <<>>, key_id |-> None]

\* payload.get("agent_card") of a decoded payload.
PayloadCard(payload) ==
    IF payload.agent_card = <<>> THEN <<>> ELSE <<LoadCard(payload.agent_card[1])>>

\* verify_agent_card that looks for the kid among the payload's claims, where
\* sign_agent_card never puts it.
VerifyWithKeyKidFromPayload(token, public_key_pem) ==
    IF ~token.wellformed \/ ~SegmentDecodes(token.payload.segment)
    THEN VResult(FALSE, <<>>, "Failed to decode token", FALSE)
    ELSE IF token.alg \notin DefaultAlgorithms
    THEN VResult(FALSE, <<>>, "Verification failed", FALSE)
    ELSE IF token.sig # Signature(public_key_pem, token.alg, token.kid, token.payload)
    THEN VResult(FALSE, <<>>, "Invalid signature", FALSE)
    ELSE IF token.payload.expired
    THEN VResult(FALSE, <<>>, "Token has expired", FALSE)
    ELSE [VResult(TRUE, PayloadCard(token.payload), None, FALSE) EXCEPT
             !.signed_at = <<token.payload.iat>>]

\* verify_agent_card that accepts whatever algorithm the token's header names.
VerifyWithKeyAnyAlgorithm(token, public_key_pem) ==
    IF ~token.wellformed \/ ~SegmentDecodes(token.payload.segment)
    THEN VResult(FALSE, <<>>, "Failed to decode token", FALSE)
    ELSE IF token.sig # Signature(public_key_pem, token.alg, token.kid, token.payload)
    THEN VResult(FALSE, <<>>, "Invalid signature", FALSE)
    ELSE IF token.payload.expired
    THEN VResult(FALSE, <<>>, "Token has expired", FALSE)
    ELSE [VResult(TRUE, PayloadCard(token.payload), None, FALSE) EXCEPT
             !.signed_at = <<token.payload.iat>>, !.key_id = token.kid]

\* verify_agent_card once it holds a public key: jwt.decode and the result.
VerifyWithKey(token, public_key_pem) ==
    IF ~token.wellformed \/ ~SegmentDecodes(token.payload.segment)
    THEN VResult(FALSE, <<>>, "Failed to decode token", FALSE)
    ELSE IF token.alg \notin DefaultAlgorithms
    THEN VResult(FALSE, <<>>, "Verification failed", FALSE)
    ELSE IF token.sig # Signature(public_key_pem, token.alg, token.kid, token.payload)
    THEN VResult(FALSE, <<>>, "Invalid signature", FALSE)
    ELSE IF token.payload.expired
    THEN VResult(FALSE, <<>>, "Token has expired", FALSE)
    ELSE [VResult(TRUE, PayloadCard(token.payload), None, FALSE) EXCEPT
             !.signed_at = <<token.payload.iat>>, !.key_id = token.kid]

\* verify_agent_card(token, public_key_path=path)
VerifyAgentCard(token, path) ==
    IF path # None /\ ~KeyFileReadable(path)
    THEN VResult(FALSE, <<>>, "FileNotFoundError", TRUE)
    ELSE IF path = None
    THEN VResult(FALSE, <<>>, "No public key provided for verification", FALSE)
    ELSE VerifyWithKey(token, LoadPublicKey(path))

\* jwt.decode(token, options={"verify_signature": False}).get("agent_card");
\* a token that does not decode leaves the card as it was.
UnverifiedCard(token, old) ==
    IF token.wellformed /\ SegmentDecodes(token.payload.segment)
    THEN PayloadCard(token.payload) ELSE old

\* ------------------------------------------------------------ client types

\* A diagnostic string: its fixed prefix and the interpolated detail.
Err(kind, detail) == [kind |-> kind, detail |-> detail]
NoError == Err(None, None)

\* DiscoveredAgent(...) with the dataclass defaults for the fields not given.
DiscoveredAgent(name, url, source, verified, method) ==
    [name |-> name, agent_card_url |-> url, source |-> source,
     agent_card |-> <<>>, verified |-> verified,
     verification_method |-> method, verification_error |-> NoError]

\* LADClient.__init__ arguments the pipeline reads, plus the module flag
\* SIGNING_AVAILABLE set by the import of common.signing.
Clients ==
    [verify_tls : BOOLEAN,
     signing_public_key : {None, PubKeyPath, MissingKeyPath},
     SIGNING_AVAILABLE : BOOLEAN]

\* The outcome of a call that may raise: the object as the call left it.
Outcome(agent, raised, exc) == [agent |-> agent, raised |-> raised, exc |-> exc]

\* ------------------------------------------------- card fetch + verification

\* LADClient._verify_signed_agent_card
VerifySignedAgentCard(client, agent, token) ==
    IF ~client.SIGNING_AVAILABLE
    THEN Outcome([agent EXCEPT !.verification_error =
                     Err("Signature verification not available", None)], FALSE, None)
    ELSE IF client.signing_public_key = None
    THEN Outcome([agent EXCEPT !.verification_error =
                     Err("No public key for signature verification", None)], FALSE, None)
    ELSE LET result == VerifyAgentCard(token, client.signing_public_key)
         IN  IF result.raised
             THEN Outcome(agent, TRUE, result.error)
             ELSE IF result.valid
             THEN Outcome([agent EXCEPT !.agent_card = result.agent_card,
                                        !.verified = TRUE,
                                        !.verification_method = "jws"], FALSE, None)
             ELSE Outcome([agent EXCEPT
                              !.verification_error =
                                  Err("Signature verification failed", result.error),
                              !.agent_card = UnverifiedCard(token, agent.agent_card)],
                          FALSE, None)

\* card_url.netloc.split(":")[0]
CardDomain(url) == SplitFirst(Netloc(url), ":")

\* provider.get("organization", "") of a present card
Organization(agent) == agent.agent_card[1].organization

\* The match test of _verify_domain, on the raw organization and domain.
DomainMatches(organization, card_domain) ==
    /\ organization # <<>>
    /\ card_domain # <<>>
    /\ LET org_normalized    == StripSpaces(Lower(organization))
           domain_normalized == Lower(card_domain)
       IN  \/ Contains(domain_normalized, org_normalized)
           \/ EndsWith(domain_normalized, org_normalized)

\* _verify_domain that marks the agent verified without recording the method.
VerifyDomainNoMethod(agent) ==
    IF agent.agent_card = <<>>
    THEN agent
    ELSE IF DomainMatches(Organization(agent), CardDomain(agent.agent_card_url))
              /\ agent.verification_method # "tls"
    THEN [agent EXCEPT !.verified = TRUE]
    ELSE agent

\* LADClient._verify_domain
VerifyDomain(agent) ==
    IF agent.agent_card = <<>>
    THEN agent
    ELSE IF DomainMatches(Organization(agent), CardDomain(agent.agent_card_url))
              /\ agent.verification_method # "tls"
    THEN [agent EXCEPT !.verification_method = "domain", !.verified = TRUE]
    ELSE agent

\* The response handling that takes https alone as TLS verification.
HandleCardResponseTlsByScheme(client, agent, resp) ==
    IF resp.kind = "jose"
    THEN VerifySignedAgentCard(client, agent, resp.token)
    ELSE LET used_tls == StartsWith(agent.agent_card_url, HttpsPrefix)
             withCard == [agent EXCEPT !.agent_card = <<resp.card>>]
         IN  IF used_tls
             THEN Outcome([withCard EXCEPT !.verified = TRUE,
                                           !.verification_method = "tls"], FALSE, None)
             ELSE Outcome(withCard, FALSE, None)

\* The part of fetch_agent_card that handles the response body, before the
\* domain check: the signed branch or the plain JSON branch.
HandleCardResponse(client, agent, resp) ==
    IF resp.kind = "jose"
    THEN VerifySignedAgentCard(client, agent, resp.token)
    ELSE LET used_tls == StartsWith(agent.agent_card_url, HttpsPrefix)
             withCard == [agent EXCEPT !.agent_card = <<resp.card>>]
         IN  IF used_tls /\ client.verify_tls
             THEN Outcome([withCard EXCEPT !.verified = TRUE,
                                           !.verification_method = "tls"], FALSE, None)
             ELSE Outcome(withCard, FALSE, None)

\* LADClient.fetch_agent_card(agent) with the defaults verify_domain=True,
\* prefer_signed=True, for one response of the server.
FetchAgentCard(client, agent, resp) ==
    IF resp.kind = "status_error"
    THEN Outcome([agent EXCEPT !.verification_error = Err("HTTP error", "500")],
                 TRUE, "HTTPStatusError")
    ELSE IF resp.kind = "request_error"
    THEN Outcome([agent EXCEPT !.verification_error = Err("Request error", "ConnectError")],
                 TRUE, "ConnectError")
    ELSE IF resp.kind = "bad_json"
    THEN Outcome(agent, TRUE, "JSONDecodeError")
    ELSE LET handled == HandleCardResponse(client, agent, resp)
         IN  IF handled.raised
             THEN handled
             ELSE Outcome(VerifyDomain(handled.agent), FALSE, None)

\* ------------------------------------------------------------------ state

VARIABLES
    client,       \* the LADClient's configuration
    pc,           \* where the discover() / discover_with_consent() call stands
    args,         \* the arguments of the call
    heap,         \* the DiscoveredAgent objects, by object id (index)
    listener,     \* MDNSListener: agents (ids, in list order), _agents_by_name
    zc,           \* the client's Zeroconf handle: "none", "open", "closed"
    result,       \* the DiscoveryResult under construction
    idx,          \* position of the card-fetch loop or of the consent loop
    approved,     \* approved_agents of discover_with_consent
    nEvents,      \* listener callbacks delivered in the open window
    wkCalls,      \* history: invocations of discover_wellknown
    fetchLog,     \* history: object ids passed to fetch_agent_card, in order
    lastFetch,    \* history: the latest fetch_agent_card call
    preFilter,    \* history: result.agents when the card-fetch stage ended
    discoverOut,  \* history: result.agents as discover() returned it
    lookups,      \* history: how each lookup stage of the call ended
    jws,          \* a sign_agent_card / verify_agent_card round, outside the client
    consentLog,   \* history: the calls to the consent callback and their returns
    lastEvent,    \* history: the last call on a listener the application drives
    server,       \* the LADServer object
    net,          \* the server's surroundings: multicast handles, key file, last call
    ua,           \* the demo user agent: services found and its handling of one
    clock         \* the wall clock of a discover_mdns call under observation

vars == <<client, pc, args, heap, listener, zc, result, idx, approved, nEvents,
          wkCalls, fetchLog, lastFetch, preFilter, discoverOut, lookups, jws,
          consentLog, lastEvent, server, net, ua, clock>>

\* The variables of the discovery client and of the signing round.
clientVars == <<client, pc, args, heap, listener, zc, result, idx, approved, nEvents,
                wkCalls, fetchLog, lastFetch, preFilter, discoverOut, lookups, jws,
                consentLog, lastEvent, clock>>

\* DiscoveryResult()
DiscoveryResult == [agents |-> <<>>, discovery_method |-> "none", errors |-> <<>>]

\* A line appended to result.errors: prefix, agent name, exception text.
Diag(kind, name, exc) == [kind |-> kind, name |-> name, exc |-> exc]

\* MDNSListener.__init__; _agents_by_name maps a service name to an id, 0 if absent.
ServiceNames == {"hotel._a2a._tcp.local.", "spa._a2a._tcp.local."}
NewListener == [agents |-> <<>>, by_name |-> [n \in ServiceNames |-> 0]]

\* name.replace("._a2a._tcp.local.", "")
AgentNameOf(name) == IF name = "hotel._a2a._tcp.local." THEN "hotel" ELSE "spa"

NoFetch == [id |-> 0, resp |-> [kind |-> None], pre |-> DiscoveredAgent(None, <<>>, None, FALSE, None)]

\* How one lookup stage ended: "ok" with the name and agent_card_url of each
\* agent it returned, in order, or the failure that ended it.
Lookup(stage, outcome, returned) ==
    [stage |-> stage, outcome |-> outcome, returned |-> returned]

\* No signing round is under way.
NoJws == [stage |-> None]

\* A call on the listener, kept while an application drives the listener
\* itself ("listening"); nothing is kept inside a discover_mdns window.
ListenerEvent(op, name, info) == [op |-> op, name |-> name, info |-> info]
NoEvent == ListenerEvent(None, None, None)
Recorded(at, event) == IF at = "listening" THEN event ELSE NoEvent

\* No server was constructed, and no user agent is running.
NoServer == [agent_name |-> None]
NoNet == [handles |-> <<>>]
NoUa == [pc |-> None]

\* The wall clock of one discover_mdns call, in ticks: self.mdns_timeout, the
\* time now, when ServiceBrowser(...) started browsing, when the call returned
\* (each absent as <<>>), and the listener callbacks delivered, in order.
\* NoClock: time is not observed, and the sleep may end at any moment.
NoClock == [mdns_timeout |-> 0]
Clock(mdns_timeout) ==
    [mdns_timeout |-> mdns_timeout, now |-> 0, started |-> <<>>, returned |-> <<>>,
     heard |-> <<>>]
Timed(c) == c.mdns_timeout > 0

\* browser = ServiceBrowser(zeroconf, "_a2a._tcp.local.", listener)
BrowsingStarts(c) == IF Timed(c) THEN [c EXCEPT !.started = <<c.now>>] ELSE c

\* return agents
DiscoverMdnsReturns(c) == IF Timed(c) THEN [c EXCEPT !.returned = <<c.now>>] ELSE c

\* A callback of the listener, with the time it ran at.
Heard(c, event) ==
    IF Timed(c) THEN [c EXCEPT !.heard = Append(c.heard, [at |-> c.now, event |-> event])]
    ELSE c

\* A sleep that also ends as soon as the listener holds an agent.
SleepOverOnFirstHit(c, l) ==
    Timed(c) => (c.now - c.started[1] >= c.mdns_timeout \/ l.agents # <<>>)

\* await asyncio.sleep(self.mdns_timeout) has returned.
SleepOver(c, l) == Timed(c) => c.now - c.started[1] >= c.mdns_timeout

\* A teardown that leaves the handle as it is.
ZeroconfCloseSkipped(handle) == handle

\* zeroconf.close()
ZeroconfClose(handle) == "closed"

NoArgs == [fallback_url |-> <<>>, try_mdns |-> FALSE, fetch_cards |-> FALSE,
           require_verified |-> FALSE, consent |-> "off"]

Init ==
    /\ client \in Clients
    /\ pc = "idle"
    /\ args = NoArgs
    /\ heap = <<>>
    /\ listener = NewListener
    /\ zc = "none"
    /\ result = DiscoveryResult
    /\ idx = 0
    /\ approved = <<>>
    /\ nEvents = 0
    /\ wkCalls = 0
    /\ fetchLog = <<>>
    /\ lastFetch = NoFetch
    /\ preFilter = <<>>
    /\ discoverOut = <<>>
    /\ lookups = <<>>
    /\ jws = NoJws
    /\ consentLog = <<>>
    /\ lastEvent = NoEvent
    /\ clock = NoClock
    /\ server = NoServer
    /\ net = NoNet
    /\ ua = NoUa

\* ------------------------------------------------------------ orchestrator

\* Step 2 without its try/except: a failed lookup ends the call.
AfterDiscoveryPcReraises(a, res) ==
    IF res.errors # <<>> THEN "raised"
    ELSE IF a.fetch_cards /\ res.agents # <<>> THEN "fetch" ELSE "filter"

\* discover(), after Step 2: the card-fetch loop runs if there is an agent.
AfterDiscoveryPc(a, res) ==
    IF a.fetch_cards /\ res.agents # <<>> THEN "fetch" ELSE "filter"

\* Step 2 that consults the fallback only when mDNS was not tried.
AfterMdnsPcOnlyWithoutMdns(a, res) ==
    IF ~a.try_mdns /\ res.agents = <<>> /\ a.fallback_url # <<>> THEN "wellknown"
    ELSE AfterDiscoveryPc(a, res)

\* Step 2 that consults the fallback whenever a fallback_url is given.
AfterMdnsPcAlwaysFallback(a, res) ==
    IF a.fallback_url # <<>> THEN "wellknown" ELSE AfterDiscoveryPc(a, res)

\* discover(), after Step 1: the well-known fallback runs only without agents.
AfterMdnsPc(a, res) ==
    IF res.agents = <<>> /\ a.fallback_url # <<>> THEN "wellknown"
    ELSE AfterDiscoveryPc(a, res)

\* Step 1 that pins discovery_method whatever discover_mdns returned.
WithMdnsAgentsAlwaysPins(res, mdns_agents) ==
    [res EXCEPT !.agents = res.agents \o mdns_agents, !.discovery_method = "mdns"]

\* discover(), Step 1 once discover_mdns has returned the ids mdns_agents.
WithMdnsAgents(res, mdns_agents) ==
    IF mdns_agents # <<>>
    THEN [res EXCEPT !.agents = res.agents \o mdns_agents, !.discovery_method = "mdns"]
    ELSE res

FallbackUrls == {<<>>, BaseHttp, BaseHttps}
ConsentModes == {"off", "default", "custom"}

\* A call of discover() ("off") or discover_with_consent() (default or custom
\* callback), up to its first suspension: with try_mdns, discover_mdns creates
\* the Zeroconf handle and the browser, either of which may fail.
Discover(fallback_url, try_mdns, fetch_cards, require_verified, consent, mdns) ==
    /\ pc = "idle"
    /\ (~try_mdns => mdns = "ok")
    /\ LET a == [fallback_url |-> fallback_url, try_mdns |-> try_mdns,
                 fetch_cards |-> fetch_cards, require_verified |-> require_verified,
                 consent |-> consent]
       IN  /\ args' = a
           /\ result' = DiscoveryResult
           /\ IF try_mdns /\ mdns = "ok"
              THEN pc' = "mdns_window" /\ zc' = "open" /\ clock' = BrowsingStarts(clock)
              ELSE /\ pc' = AfterMdnsPc(a, WithMdnsAgents(DiscoveryResult, <<>>))
                   /\ zc' = IF try_mdns /\ mdns = "browse_fail"
                            THEN ZeroconfClose("open") ELSE zc
                   /\ clock' = IF try_mdns THEN DiscoverMdnsReturns(clock) ELSE clock
    /\ lookups' = IF try_mdns /\ mdns # "ok" THEN <<Lookup("mdns", mdns, <<>>)>> ELSE <<>>
    /\ listener' = NewListener
    /\ idx' = 1
    /\ UNCHANGED <<server, net, ua, lastEvent, consentLog, jws, client, heap, approved, nEvents, wkCalls, fetchLog, lastFetch,
                   preFilter, discoverOut>>

\* ------------------------------------------------------------ mDNS listener

\* What zc.get_service_info returns: nothing, or addresses, port and TXT path
\* (an absent TXT path is the empty sequence).
ServiceInfo(found, addresses, port, path) ==
    [found |-> found, addresses |-> addresses, port |-> port, path |-> path]
ServiceInfos ==
    { ServiceInfo(FALSE, <<>>, <<>>, <<>>),
      ServiceInfo(TRUE, <<>>, Port1, <<>>),
      ServiceInfo(TRUE, <<Host1>>, Port1, <<>>),
      ServiceInfo(TRUE, <<Host1>>, Port2, <<>>),
      ServiceInfo(TRUE, <<Host1>>, Port1, <<"/","c","a","r","d">>) }

\* use_https of discover(): fallback_url.startswith("https://") if fallback_url else False
UseHttps(fallback_url) == fallback_url # <<>> /\ StartsWith(fallback_url, HttpsPrefix)

\* f"{scheme}://{host}:{port}{path}" with properties.get("path", default)
ServiceUrl(use_https, info) ==
    (IF use_https THEN HttpsPrefix ELSE HttpPrefix)
        \o info.addresses[1] \o <<":">> \o info.port
        \o (IF info.path = <<>> THEN DefaultPath ELSE info.path)

RemoveAt(seq, j) == SubSeq(seq, 1, j - 1) \o SubSeq(seq, j + 1, Len(seq))

\* Object ids after the object k has been freed.
Renumber(id, k) == IF id > k THEN id - 1 ELSE id

\* MDNSListener.add_service; the browser runs the listener's callbacks while
\* the Zeroconf handle it was built on is open.
AddService(name, info) ==
    /\ zc = "open"
    /\ lastEvent' = Recorded(pc, ListenerEvent("add", name, info))
    /\ clock' = Heard(clock, ListenerEvent("add", name, info))
    /\ nEvents < MaxEvents
    /\ nEvents' = nEvents + 1
    /\ IF info.found /\ info.addresses # <<>>
       THEN /\ Len(heap) < MaxAgents
            /\ LET agent == DiscoveredAgent(AgentNameOf(name),
                                ServiceUrl(UseHttps(args.fallback_url), info),
                                "mdns", FALSE, None)
                   id == Len(heap) + 1
               IN  /\ heap' = Append(heap, agent)
                   /\ listener' = [agents |-> Append(listener.agents, id),
                                   by_name |-> [listener.by_name EXCEPT ![name] = id]]
       ELSE UNCHANGED <<heap, listener>>
    /\ UNCHANGED <<server, net, ua, consentLog, jws, lookups, client, pc, args, zc, result, idx, approved, wkCalls, fetchLog,
                   lastFetch, preFilter, discoverOut>>

\* An update that rewrites the URL and keeps what was fetched from the old one.
UpdatedAgentKeepsCard(agent, new_url) ==
    IF agent.agent_card_url # new_url
    THEN [agent EXCEPT !.agent_card_url = new_url]
    ELSE agent

\* The entry update_service leaves for an agent already known.
UpdatedAgent(agent, new_url) ==
    IF agent.agent_card_url # new_url
    THEN [agent EXCEPT !.agent_card_url = new_url, !.verified = FALSE, !.agent_card = <<>>]
    ELSE agent

\* MDNSListener.update_service
UpdateService(name, info) ==
    /\ zc = "open"
    /\ lastEvent' = Recorded(pc, ListenerEvent("update", name, info))
    /\ clock' = Heard(clock, ListenerEvent("update", name, info))
    /\ nEvents < MaxEvents
    /\ nEvents' = nEvents + 1
    /\ IF info.found /\ listener.by_name[name] # 0 /\ info.addresses # <<>>
       THEN LET id == listener.by_name[name]
            IN  heap' = [heap EXCEPT ![id] =
                            UpdatedAgent(heap[id], ServiceUrl(UseHttps(args.fallback_url), info))]
       ELSE UNCHANGED heap
    /\ UNCHANGED <<server, net, ua, consentLog, jws, lookups, client, pc, args, listener, zc, result, idx, approved, wkCalls,
                   fetchLog, lastFetch, preFilter, discoverOut>>

\* The position list.remove(agent) deletes: the first entry equal to agent
\* (dataclass equality compares the fields), 0 if `agent in self.agents` fails.
FirstEqual(agents, agent) ==
    IF \E j \in 1..Len(agents) : heap[agents[j]] = agent
    THEN CHOOSE j \in 1..Len(agents) :
            /\ heap[agents[j]] = agent
            /\ \A i \in 1..(j - 1) : heap[agents[i]] # agent
    ELSE 0

\* MDNSListener.remove_service; the object dropped from the list is freed.
RemoveService(name) ==
    /\ zc = "open"
    /\ lastEvent' = Recorded(pc, ListenerEvent("remove", name, None))
    /\ clock' = Heard(clock, ListenerEvent("remove", name, None))
    /\ nEvents < MaxEvents
    /\ nEvents' = nEvents + 1
    /\ IF listener.by_name[name] # 0
       THEN LET j == FirstEqual(listener.agents, heap[listener.by_name[name]])
                k == listener.agents[j]
            IN  /\ heap' = RemoveAt(heap, k)
                /\ listener' =
                     [agents |-> [i \in 1..(Len(listener.agents) - 1) |->
                                     Renumber(RemoveAt(listener.agents, j)[i], k)],
                      by_name |-> [n \in ServiceNames |->
                                     IF n = name THEN 0
                                     ELSE Renumber(listener.by_name[n], k)]]
       ELSE UNCHANGED <<heap, listener>>
    /\ UNCHANGED <<server, net, ua, consentLog, jws, lookups, client, pc, args, zc, result, idx, approved, wkCalls, fetchLog,
                   lastFetch, preFilter, discoverOut>>

\* discover_mdns: the sleep of mdns_timeout ends, agents = listener.agents, the
\* handle is closed and the listener goes out of scope (it and the count of
\* its callbacks are reset); then Step 1 of discover() takes the returned list.
MdnsWindowCloses ==
    /\ pc = "mdns_window"
    /\ SleepOver(clock, listener)
    /\ zc' = ZeroconfClose(zc)
    /\ clock' = DiscoverMdnsReturns(clock)
    /\ result' = WithMdnsAgents(result, listener.agents)
    /\ pc' = AfterMdnsPc(args, result')
    /\ lookups' = Append(lookups, Lookup("mdns", "ok",
                     [i \in 1..Len(listener.agents) |->
                         [name |-> heap[listener.agents[i]].name,
                          agent_card_url |-> heap[listener.agents[i]].agent_card_url]]))
    /\ listener' = NewListener
    /\ nEvents' = 0
    /\ UNCHANGED <<server, net, ua, lastEvent, consentLog, jws, client, args, heap, idx, approved, wkCalls,
                   fetchLog, lastFetch, preFilter, discoverOut>>

\* ------------------------------------------------------- well-known fetcher

\* urljoin(base_url.rstrip("/") + "/", ".well-known/lad/agents")
DiscoveryUrl(base_url) == RStripSlash(base_url) \o <<"/">> \o WellKnownRel

\* Well-formed entries of the "agents" array: name and agent_card_url.
WkEntry(name, url) == [name |-> name, agent_card_url |-> url]
WkEntries == { WkEntry("Concierge", UrlAiGrand),
               WkEntry("Spa", UrlAiGrandHttp),
               WkEntry("Guest", UrlUserinfo) }

\* All sequences over S of length at most n.
SeqsUpTo(S, n) == UNION { [1..k -> S] : k \in 0..n }

\* What the GET of the discovery URL may produce.
WkFailures == {"HTTPStatusError", "ConnectError", "JSONDecodeError", "KeyError"}

\* discover_wellknown that takes the scheme of each agent's own card URL.
WellknownAgentsByCardScheme(verify_tls, base_url, entries) ==
    [i \in 1..Len(entries) |->
        LET used_tls == StartsWith(entries[i].agent_card_url, HttpsPrefix)
        IN  DiscoveredAgent(entries[i].name, entries[i].agent_card_url, "wellknown",
                            used_tls /\ verify_tls,
                            IF used_tls /\ verify_tls THEN "tls" ELSE None)]

\* discover_wellknown that puts each new agent at the head of its list.
WellknownAgentsReversed(verify_tls, base_url, entries) ==
    LET used_tls == StartsWith(DiscoveryUrl(base_url), HttpsPrefix)
        n == Len(entries)
    IN  [i \in 1..n |->
            DiscoveredAgent(entries[n + 1 - i].name, entries[n + 1 - i].agent_card_url,
                            "wellknown", used_tls /\ verify_tls,
                            IF used_tls /\ verify_tls THEN "tls" ELSE None)]

\* discover_wellknown on a parsed response: one DiscoveredAgent per entry.
WellknownAgents(verify_tls, base_url, entries) ==
    LET used_tls == StartsWith(DiscoveryUrl(base_url), HttpsPrefix)
    IN  [i \in 1..Len(entries) |->
            DiscoveredAgent(entries[i].name, entries[i].agent_card_url, "wellknown",
                            used_tls /\ verify_tls,
                            IF used_tls /\ verify_tls THEN "tls" ELSE None)]

\* Step 2 of discover() when discover_wellknown returns `entries`.
WellknownReturns(entries) ==
    /\ pc = "wellknown"
    /\ Len(heap) + Len(entries) <= MaxAgents
    /\ wkCalls' = wkCalls + 1
    /\ LET new == WellknownAgents(client.verify_tls, args.fallback_url, entries)
           ids == [i \in 1..Len(new) |-> Len(heap) + i]
       IN  /\ heap' = heap \o new
           /\ result' = IF ids # <<>>
                        THEN [result EXCEPT !.agents = result.agents \o ids,
                                            !.discovery_method = "wellknown"]
                        ELSE result
    /\ pc' = AfterDiscoveryPc(args, result')
    /\ lookups' = Append(lookups, Lookup("wellknown", "ok", entries))
    /\ UNCHANGED <<clock, server, net, ua, lastEvent, consentLog, jws, client, args, listener, zc, idx, approved, nEvents, fetchLog,
                   lastFetch, preFilter, discoverOut>>

\* Step 2 with a discover_wellknown that logs its failure and returns [].
WellknownRaisesSwallowed(exc) ==
    /\ pc = "wellknown"
    /\ wkCalls' = wkCalls + 1
    /\ result' = result
    /\ pc' = AfterDiscoveryPc(args, result')
    /\ lookups' = Append(lookups, Lookup("wellknown", exc, <<>>))
    /\ UNCHANGED <<clock, server, net, ua, lastEvent, consentLog, jws, client, args, heap, listener, zc, idx, approved, nEvents, fetchLog,
                   lastFetch, preFilter, discoverOut>>

\* Step 2 of discover() when discover_wellknown raises.
WellknownRaises(exc) ==
    /\ pc = "wellknown"
    /\ wkCalls' = wkCalls + 1
    /\ result' = [result EXCEPT !.errors =
                     Append(result.errors, Diag("Well-known discovery failed", None, exc))]
    /\ pc' = AfterDiscoveryPc(args, result')
    /\ lookups' = Append(lookups, Lookup("wellknown", exc, <<>>))
    /\ UNCHANGED <<clock, server, net, ua, lastEvent, consentLog, jws, client, args, heap, listener, zc, idx, approved, nEvents, fetchLog,
                   lastFetch, preFilter, discoverOut>>

\* ---------------------------------------------------------- card-fetch loop

Tokens ==
    { SignAgentCard(c, SigningConfig(k, None, ES256), 1) : c \in Cards, k \in Keys }
    \cup {MalformedToken}

\* What the GET of agent_card_url may produce.
Response(kind, card, token) == [kind |-> kind, card |-> card, token |-> token]
CardResponses ==
    { Response(k, <<>>, MalformedToken) : k \in {"status_error", "request_error", "bad_json"} }
    \cup { Response("json", c, MalformedToken) : c \in Cards }
    \cup { Response("jose", <<>>, t) : t \in Tokens }

\* The loop with the try/except around it: the first raise ends it.
LoopStopsOnRaise(raised, i, n) == ~raised /\ i < n

\* Whether the loop `for agent in result.agents` goes on after the fetch of
\* entry i of n: the try/except is inside the loop, so a raise does not end it.
LoopContinues(raised, i, n) == i < n

\* Step 3 of discover(): one iteration of `for agent in result.agents`.
FetchCard(resp) ==
    /\ pc = "fetch"
    /\ LET id  == result.agents[idx]
           out == FetchAgentCard(client, heap[id], resp)
       IN  /\ heap' = [heap EXCEPT ![id] = out.agent]
           /\ result' = IF out.raised
                        THEN [result EXCEPT !.errors =
                                 Append(result.errors,
                                        Diag("Failed to fetch AgentCard for", heap[id].name, out.exc))]
                        ELSE result
           /\ fetchLog' = Append(fetchLog, id)
           /\ lastFetch' = [id |-> id, resp |-> resp, pre |-> heap[id]]
    /\ IF LoopContinues(FetchAgentCard(client, heap[result.agents[idx]], resp).raised,
                        idx, Len(result.agents))
       THEN idx' = idx + 1 /\ pc' = "fetch"
       ELSE idx' = 1 /\ pc' = "filter"
    /\ UNCHANGED <<clock, server, net, ua, lastEvent, consentLog, jws, lookups, client, args, listener, zc, approved, nEvents, wkCalls,
                   preFilter, discoverOut>>

\* Step 4 that computes the filtered list and does not keep it.
FilterVerifiedNoop(agents, h) == agents

\* [a for a in result.agents if a.verified]
FilterVerified(agents, h) == SelectSeq(agents, LAMBDA id : h[id].verified)

\* Step 4 of discover() and its return; discover_with_consent returns at once
\* when no agent is left.
Filter ==
    /\ pc = "filter"
    /\ preFilter' = result.agents
    /\ result' = IF args.require_verified
                 THEN [result EXCEPT !.agents = FilterVerified(result.agents, heap)]
                 ELSE result
    /\ discoverOut' = result'.agents
    /\ pc' = IF args.consent = "off" \/ result'.agents = <<>> THEN "done" ELSE "consent"
    /\ idx' = 1
    /\ approved' = <<>>
    /\ UNCHANGED <<clock, server, net, ua, lastEvent, consentLog, jws, lookups, client, args, heap, listener, zc, nEvents, wkCalls, fetchLog,
                   lastFetch>>

\* ------------------------------------------------------------- consent gate

ConsentDecisions == {"approved", "denied", "deferred"}

\* ConsentRequest(agent=agent, verified=agent.verified, ...)
ConsentRequest(agent) ==
    [agent |-> agent, verified |-> agent.verified,
     verification_method |-> agent.verification_method]

\* A default callback that approves every agent.
DefaultConsentApprovesAll(request) == "approved"

\* default_consent_callback
DefaultConsentCallback(request) ==
    IF request.verified THEN "approved" ELSE "denied"

\* A caller-supplied callback, as a consent UI that decides by what it shows:
\* it defers agents that arrive with a verification error, approves the other
\* verified or mDNS agents and denies the rest.
CustomConsentCallback(request) ==
    IF request.agent.verification_error # NoError THEN "deferred"
    ELSE IF request.verified \/ request.agent.source = "mdns" THEN "approved"
    ELSE "denied"

\* callback = consent_callback or default_consent_callback; response = callback(request)
Callback(mode, request) ==
    IF mode = "default" THEN DefaultConsentCallback(request)
    ELSE CustomConsentCallback(request)

\* A classification that drops only the denied agents.
ClassifyKeepsDeferred(approved_agents, id, decision) ==
    IF decision # "denied" THEN Append(approved_agents, id) ELSE approved_agents

\* approved_agents after the callback answered `decision` for the agent id.
Classify(approved_agents, id, decision) ==
    IF decision = "approved" THEN Append(approved_agents, id) ELSE approved_agents

\* The callables a caller may pass, by the type ConsentCallback: a plain
\* function, an async def, and a function that hands back another awaitable
\* (a Future or Task); "default" is the async def default_consent_callback.
ConsentCallbacks == {"default", "custom", "custom_async", "custom_future"}

\* What callback(consent_request) hands back before anything is awaited.
CallbackReturns(mode) ==
    IF mode = "custom" THEN "response"
    ELSE IF mode = "custom_future" THEN "future"
    ELSE "coroutine"

\* asyncio.iscoroutine(response)
IsCoroutine(returned) == returned = "coroutine"

\* An entry of the callback history.
ConsentEvent(event, id) == [event |-> event, id |-> id]

\* One iteration of the consent loop of discover_with_consent; the last one
\* stores approved_agents in the result and returns.  A Future is not a
\* coroutine, so it is not awaited and response.decision raises
\* AttributeError, which ends the call.
Consent ==
    /\ pc = "consent"
    /\ LET id == result.agents[idx]
           returned == CallbackReturns(args.consent)
           hasDecision == returned = "response" \/ IsCoroutine(returned)
           decision == Callback(args.consent, ConsentRequest(heap[id]))
       IN  IF hasDecision
           THEN /\ consentLog' = consentLog \o
                                    <<ConsentEvent("call", id), ConsentEvent("return", id)>>
                /\ approved' = Classify(approved, id, decision)
                /\ IF idx < Len(result.agents)
                   THEN idx' = idx + 1 /\ pc' = "consent" /\ result' = result
                   ELSE /\ idx' = idx
                        /\ pc' = "done"
                        /\ result' = [result EXCEPT !.agents = approved']
           ELSE /\ consentLog' = Append(consentLog, ConsentEvent("call", id))
                /\ pc' = "raised"
                /\ UNCHANGED <<approved, idx, result>>
    /\ UNCHANGED <<clock, server, net, ua, lastEvent, jws, lookups, client, args, heap, listener, zc, nEvents, wkCalls, fetchLog,
                   lastFetch, preFilter, discoverOut>>

\* ------------------------------------------------- direct fetch_agent_card

\* Agents as the two discovery paths create them, for a caller that holds one
\* agent and fetches its card itself.
CreatedAgents(c) ==
    { WellknownAgents(c.verify_tls, b, <<e>>)[1] : b \in {BaseHttp, BaseHttps}, e \in WkEntries }
    \cup { DiscoveredAgent(AgentNameOf("hotel._a2a._tcp.local."),
                           ServiceUrl(h, ServiceInfo(TRUE, <<Host1>>, Port1, <<>>)),
                           "mdns", FALSE, None) : h \in BOOLEAN }

InitDirect ==
    /\ client \in Clients
    /\ pc = "direct"
    /\ args = NoArgs
    /\ heap \in { <<a>> : a \in CreatedAgents(client) }
    /\ listener = NewListener
    /\ zc = "none"
    /\ result = DiscoveryResult
    /\ idx = 0
    /\ approved = <<>>
    /\ nEvents = 0
    /\ wkCalls = 0
    /\ fetchLog = <<>>
    /\ lastFetch = NoFetch
    /\ preFilter = <<>>
    /\ discoverOut = <<>>
    /\ lookups = <<>>
    /\ jws = NoJws
    /\ consentLog = <<>>
    /\ lastEvent = NoEvent
    /\ clock = NoClock
    /\ server = NoServer
    /\ net = NoNet
    /\ ua = NoUa

\* await client.fetch_agent_card(agent), called by the holder of the agent;
\* an exception goes to that caller.
FetchDirect(resp) ==
    /\ pc = "direct"
    /\ LET out == FetchAgentCard(client, heap[1], resp)
       IN  /\ heap' = [heap EXCEPT ![1] = out.agent]
           /\ lastFetch' = [id |-> 1, resp |-> resp, pre |-> heap[1]]
    /\ UNCHANGED <<clock, server, net, ua, lastEvent, consentLog, jws, lookups, client, pc, args, listener, zc, result, idx, approved, nEvents,
                   wkCalls, fetchLog, preFilter, discoverOut>>

\* ---------------------------------------------------- signing round trip

\* Cards a signer may build in Python: the skills member as a list or a tuple.
SignCards ==
    { [c EXCEPT !.skills = s] :
        c \in {Card("Grand Azure Hotel", OrgGrand), Card("NoProvider", <<>>)},
        s \in {PyList(<<>>), PyList(<<"concierge">>), PyTuple(<<>>), PyTuple(<<"concierge">>)} }

\* SigningConfig.key_id: not configured, empty, or a key name.
KeyIds == {None, "", "test-key-v1"}

\* Signing configurations over the generated key pairs: the default
\* algorithm, or one set by the signer.
SigningConfigs ==
    { SigningConfig(k, id, a) : k \in Keys, id \in KeyIds, a \in {ES256, ES384} }

\* The times at which a card may be signed.
SignTimes == {1, 2}

\* A card and a configuration in the hands of a signer; nothing signed yet.
\* signed is the token as its issuer wrote it, token the text that reaches
\* the verifier; origin tells whether sign_agent_card wrote it.
JwsRound(card, config) ==
    [stage |-> "new", agent_card |-> card, config |-> config,
     origin |-> None, signed |-> MalformedToken,
     token |-> MalformedToken, public_key |-> None, public_key_path |-> None,
     result |-> VResult(FALSE, <<>>, None, FALSE)]

\* A token another issuer signed with the trusted key and an exp claim that
\* has passed.
ExpiredToken ==
    LET t == SignAgentCard(Card("Grand Azure Hotel", OrgGrand),
                           SigningConfig(TrustedKey, None, ES256), 1)
        payload == [t.payload EXCEPT !.expired = TRUE]
    IN  [t EXCEPT !.payload = payload,
                  !.sig = Signature(TrustedKey, ES256, None, payload)]

\* Token texts that did not come out of sign_agent_card.
ForeignTokens == {MalformedToken, ExpiredToken}

\* The public_key_path arguments of verify_agent_card.
KeyPaths == {None, PubKeyPath, MissingKeyPath}

InitSign ==
    /\ client = [verify_tls |-> TRUE, signing_public_key |-> None, SIGNING_AVAILABLE |-> TRUE]
    /\ pc = "jws"
    /\ args = NoArgs
    /\ heap = <<>>
    /\ listener = NewListener
    /\ zc = "none"
    /\ result = DiscoveryResult
    /\ idx = 0
    /\ approved = <<>>
    /\ nEvents = 0
    /\ wkCalls = 0
    /\ fetchLog = <<>>
    /\ lastFetch = NoFetch
    /\ preFilter = <<>>
    /\ discoverOut = <<>>
    /\ lookups = <<>>
    /\ jws \in { JwsRound(c, g) : c \in SignCards, g \in SigningConfigs }
    /\ consentLog = <<>>
    /\ lastEvent = NoEvent
    /\ clock = NoClock
    /\ server = NoServer
    /\ net = NoNet
    /\ ua = NoUa

\* token = sign_agent_card(card, config), at the time now.
SignCard(now) ==
    /\ pc = "jws"
    /\ jws.stage = "new"
    /\ jws' = [jws EXCEPT !.stage = "signed",
                          !.origin = "sign_agent_card",
                          !.signed = SignAgentCard(jws.agent_card, jws.config, now),
                          !.token = SignAgentCard(jws.agent_card, jws.config, now)]
    /\ UNCHANGED <<clock, server, net, ua, lastEvent, consentLog, client, pc, args, heap, listener, zc, result, idx, approved, nEvents,
                   wkCalls, fetchLog, lastFetch, preFilter, discoverOut, lookups>>

\* A token text arrives that sign_agent_card did not write.
ReceiveToken(token) ==
    /\ pc = "jws"
    /\ jws.stage = "new"
    /\ jws' = [jws EXCEPT !.stage = "signed", !.origin = "foreign",
                          !.signed = token, !.token = token]
    /\ UNCHANGED <<clock, server, net, ua, lastEvent, consentLog, client, pc, args, heap, listener, zc, result, idx, approved, nEvents,
                   wkCalls, fetchLog, lastFetch, preFilter, discoverOut, lookups>>

\* parts[1] of the signed token is changed at one position before the token
\* is verified.
Tamper(i, ch) ==
    /\ pc = "jws"
    /\ jws.stage = "signed"
    /\ jws.origin = "sign_agent_card"
    /\ jws.token = jws.signed
    /\ i \in 1..Len(jws.token.payload.segment)
    /\ ch # jws.token.payload.segment[i]
    /\ jws' = [jws EXCEPT !.token = TamperChar(jws.token, i, ch)]
    /\ UNCHANGED <<clock, server, net, ua, lastEvent, consentLog, client, pc, args, heap, listener, zc, result, idx, approved, nEvents,
                   wkCalls, fetchLog, lastFetch, preFilter, discoverOut, lookups>>

\* result = verify_agent_card(token, public_key_path=path); a call that
\* raises leaves the outcome in result.raised.
VerifyTokenAtPath(path) ==
    /\ pc = "jws"
    /\ jws.stage = "signed"
    /\ jws' = [jws EXCEPT !.stage = "verified",
                          !.public_key_path = path,
                          !.public_key = IF path # None /\ KeyFileReadable(path)
                                         THEN LoadPublicKey(path) ELSE None,
                          !.result = VerifyAgentCard(jws.token, path)]
    /\ UNCHANGED <<clock, server, net, ua, lastEvent, consentLog, client, pc, args, heap, listener, zc, result, idx, approved, nEvents,
                   wkCalls, fetchLog, lastFetch, preFilter, discoverOut, lookups>>

\* result = verify_agent_card(token, public_key_pem=<public half of public_key>)
VerifyToken(public_key) ==
    /\ pc = "jws"
    /\ jws.stage = "signed"
    /\ jws' = [jws EXCEPT !.stage = "verified",
                          !.public_key = public_key,
                          !.result = VerifyWithKey(jws.token, public_key)]
    /\ UNCHANGED <<clock, server, net, ua, lastEvent, consentLog, client, pc, args, heap, listener, zc, result, idx, approved, nEvents,
                   wkCalls, fetchLog, lastFetch, preFilter, discoverOut, lookups>>

\* ------------------------------------------------------------ specification

\* The inputs of the orchestration runs: every kind of response, on the cards
\* that match and that do not match the well-known hosts.
OrchClients == { c \in Clients : c.SIGNING_AVAILABLE /\ c.signing_public_key = PubKeyPath }
OrchWkEntries == { WkEntry("Concierge", UrlAiGrand), WkEntry("Spa", UrlAiGrandHttp) }
OrchAddInfos == { i \in ServiceInfos : i.path = <<>> /\ i.port # Port2 }
OrchUpdateInfos == { i \in ServiceInfos : i.path = <<>> }
OrchResponses ==
    { r \in CardResponses :
        /\ r.kind \in {"status_error", "json", "jose"}
        /\ r.kind = "json" => r.card.organization \in {OrgGrand, OrgEvil}
        /\ r.kind = "jose" => /\ r.token.wellformed
                              /\ r.token.payload.agent_card[1].organization = OrgGrand }

InitOrch == Init /\ client \in OrchClients

Next ==
    \/ \E f \in FallbackUrls, m \in BOOLEAN, c \in BOOLEAN, r \in BOOLEAN,
          k \in ConsentModes, z \in {"ok", "init_fail", "browse_fail"} :
          Discover(f, m, c, r, k, z)
    \/ \E n \in ServiceNames, i \in OrchAddInfos : AddService(n, i)
    \/ \E n \in ServiceNames, i \in OrchUpdateInfos : UpdateService(n, i)
    \/ \E n \in ServiceNames : RemoveService(n)
    \/ MdnsWindowCloses
    \/ \E e \in SeqsUpTo(OrchWkEntries, MaxAgents) : WellknownReturns(e)
    \/ \E x \in WkFailures : WellknownRaises(x)
    \/ \E resp \in OrchResponses : FetchCard(resp)
    \/ Filter
    \/ Consent

\* One discover() / discover_with_consent() call.
Spec == InitOrch /\ [][Next]_vars

NextDirect == \E resp \in CardResponses : FetchDirect(resp)

\* Any sequence of fetch_agent_card calls on one discovered agent.
SpecFetch == InitDirect /\ [][NextDirect]_vars

NextSign ==
    \/ \E now \in SignTimes : SignCard(now)
    \/ \E t \in ForeignTokens : ReceiveToken(t)
    \/ \E i \in 1..4, ch \in TamperChars : Tamper(i, ch)
    \/ \E k \in Keys : VerifyToken(k)
    \/ \E p \in KeyPaths : VerifyTokenAtPath(p)

\* A card signed once and the token verified once, with any of the keys.
SpecSign == InitSign /\ [][NextSign]_vars

\* ------------------------------------------------------------ consent runs

\* Agents as discover() may hand them to the consent loop.
ConsentAgents ==
    { [DiscoveredAgent(n, UrlAiGrand, src, v, IF v THEN "tls" ELSE None)
          EXCEPT !.verification_error = e] :
        n \in {"Concierge"}, src \in {"mdns", "wellknown"}, v \in BOOLEAN,
        e \in {NoError, Err("Signature verification failed", "Invalid signature")} }

\* discover_with_consent at Step 4 of its discover() call, with the agents
\* found so far and any callback.
InitConsent ==
    /\ client = [verify_tls |-> TRUE, signing_public_key |-> None, SIGNING_AVAILABLE |-> TRUE]
    /\ pc = "filter"
    /\ heap \in SeqsUpTo(ConsentAgents, MaxAgents)
    /\ \E rv \in BOOLEAN, k \in ConsentCallbacks :
          args = [NoArgs EXCEPT !.require_verified = rv, !.consent = k]
    /\ listener = NewListener
    /\ zc = "none"
    /\ result = [DiscoveryResult EXCEPT !.agents = [i \in 1..Len(heap) |-> i],
                                        !.discovery_method = "wellknown"]
    /\ idx = 1
    /\ approved = <<>>
    /\ nEvents = 0
    /\ wkCalls = 0
    /\ fetchLog = <<>>
    /\ lastFetch = NoFetch
    /\ preFilter = <<>>
    /\ discoverOut = <<>>
    /\ lookups = <<>>
    /\ jws = NoJws
    /\ consentLog = <<>>
    /\ lastEvent = NoEvent
    /\ clock = NoClock
    /\ server = NoServer
    /\ net = NoNet
    /\ ua = NoUa

NextConsent == Filter \/ Consent

\* The end of discover() and the consent loop, for every kind of callback.
SpecConsent == InitConsent /\ [][NextConsent]_vars

\* ----------------------------------------------------------- listener runs

\* An application that keeps an MDNSListener on a browser of its own and
\* fetches the cards of the agents listed while events keep arriving.
InitListener ==
    /\ client \in OrchClients
    /\ pc = "listening"
    /\ \E f \in {<<>>, BaseHttps} : args = [NoArgs EXCEPT !.fallback_url = f]
    /\ heap = <<>>
    /\ listener = NewListener
    /\ zc = "open"
    /\ result = DiscoveryResult
    /\ idx = 0
    /\ approved = <<>>
    /\ nEvents = 0
    /\ wkCalls = 0
    /\ fetchLog = <<>>
    /\ lastFetch = NoFetch
    /\ preFilter = <<>>
    /\ discoverOut = <<>>
    /\ lookups = <<>>
    /\ jws = NoJws
    /\ consentLog = <<>>
    /\ lastEvent = NoEvent
    /\ clock = NoClock
    /\ server = NoServer
    /\ net = NoNet
    /\ ua = NoUa

\* await client.fetch_agent_card(agent) for an agent of listener.agents.
FetchListed(j, resp) ==
    /\ pc = "listening"
    /\ j \in 1..Len(listener.agents)
    /\ LET id == listener.agents[j]
           out == FetchAgentCard(client, heap[id], resp)
       IN  /\ heap' = [heap EXCEPT ![id] = out.agent]
           /\ lastFetch' = [id |-> id, resp |-> resp, pre |-> heap[id]]
    /\ lastEvent' = ListenerEvent("fetch", None, None)
    /\ UNCHANGED <<clock, server, net, ua, consentLog, jws, lookups, client, pc, args, listener, zc,
                   result, idx, approved, nEvents, wkCalls, fetchLog, preFilter, discoverOut>>

\* The card responses of the listener runs.
ListenerResponses ==
    { Response("status_error", <<>>, MalformedToken),
      Response("json", Card("Grand Azure Hotel", OrgGrand), MalformedToken) }

NextListener ==
    \/ \E n \in ServiceNames, i \in OrchAddInfos : AddService(n, i)
    \/ \E n \in ServiceNames, i \in ServiceInfos : UpdateService(n, i)
    \/ \E n \in ServiceNames : RemoveService(n)
    \/ \E j \in 1..MaxAgents, resp \in ListenerResponses : FetchListed(j, resp)

\* Any sequence of add, update and remove events, and of card fetches.
SpecListener == InitListener /\ [][NextListener]_vars

\* ------------------------------------------------------- timed mDNS lookups

\* The length of the observed time line, in ticks.
MaxTime == 3

\* self.mdns_timeout, in ticks.
MdnsTimeouts == 1..(MaxTime - 1)

\* A client about to call discover(), with the wall clock observed.
InitMdns ==
    /\ client = [verify_tls |-> TRUE, signing_public_key |-> None, SIGNING_AVAILABLE |-> TRUE]
    /\ pc = "idle"
    /\ args = NoArgs
    /\ heap = <<>>
    /\ listener = NewListener
    /\ zc = "none"
    /\ result = DiscoveryResult
    /\ idx = 0
    /\ approved = <<>>
    /\ nEvents = 0
    /\ wkCalls = 0
    /\ fetchLog = <<>>
    /\ lastFetch = NoFetch
    /\ preFilter = <<>>
    /\ discoverOut = <<>>
    /\ lookups = <<>>
    /\ jws = NoJws
    /\ consentLog = <<>>
    /\ lastEvent = NoEvent
    /\ server = NoServer
    /\ net = NoNet
    /\ ua = NoUa
    /\ \E t \in MdnsTimeouts : clock = Clock(t)

\* Wall-clock time passes once the call is under way, whatever it is doing.
Tick ==
    /\ Timed(clock)
    /\ pc # "idle"
    /\ clock.now < MaxTime
    /\ clock' = [clock EXCEPT !.now = clock.now + 1]
    /\ UNCHANGED <<client, pc, args, heap, listener, zc, result, idx, approved, nEvents,
                   wkCalls, fetchLog, lastFetch, preFilter, discoverOut, lookups, jws,
                   consentLog, lastEvent, server, net, ua>>

\* The service infos of the timed runs: an announcement with and without an
\* address, and an update that moves the service to another port.
MdnsAddInfos == { i \in OrchAddInfos : i.found }
MdnsUpdateInfos == { i \in ServiceInfos : i.addresses # <<>> /\ i.port = Port2 }

NextMdns ==
    \/ \E f \in {<<>>, BaseHttps}, z \in {"ok", "init_fail", "browse_fail"} :
          Discover(f, TRUE, FALSE, FALSE, "off", z)
    \/ \E n \in ServiceNames, i \in MdnsAddInfos : AddService(n, i)
    \/ \E n \in ServiceNames, i \in MdnsUpdateInfos : UpdateService(n, i)
    \/ \E n \in ServiceNames : RemoveService(n)
    \/ Tick
    \/ MdnsWindowCloses

\* The mDNS lookup of one discover() call against the wall clock.
SpecMdns == InitMdns /\ [][NextMdns]_vars

\* ------------------------------------------------------------------ server

\* The number of multicast handles the process may open.
MaxHandles == 2

\* AgentConfig.name: any string; the last one is 64 characters long.
LongAgentName == "Grand Azure Hotel and Conference Centre Concierge Desk Level Two"
AgentNames == {"Hotel Concierge", "", LongAgentName}

\* zeroconf's ServiceInfo(type_, name, ...) checks the name: the instance
\* label before "._a2a._tcp.local." must have 1 to 63 bytes, else the
\* constructor raises BadTypeInNameException.
ServiceInfoBuilds(name) == Len(name) \in 1..63

\* The private key file: a key, absent, or a file that holds no key; or no
\* private_key_path in the configuration at all.
KeyFileStates == {"ok", "missing", "garbage", "no_path"}

\* The signing_config argument: none, SigningConfig(enabled=False) or
\* SigningConfig(enabled=True, private_key_path=...).
ServerSignings == {"none", "disabled", "enabled"}

\* SigningConfig.validate() of an enabled configuration: a path is given and
\* the key file exists.
Validate(keyfile) == keyfile \notin {"missing", "no_path"}

\* A constructor that takes the signing configuration as it is given.
LADServerKeepsSigning(name, enable_mdns, signing, available, keyfile) ==
    [agent_name |-> name,
     enable_mdns |-> enable_mdns,
     signing_config |->
         IF signing = "none" THEN <<>> ELSE <<[enabled |-> signing = "enabled"]>>,
     zeroconf |-> 0,
     service_info |-> <<>>,
     constructed |-> [signing |-> signing, available |-> available, keyfile |-> keyfile]]

\* LADServer.__init__: signing is switched off when the signing module is
\* not available or the configuration does not validate.  `constructed` keeps
\* what the constructor was given and found (history).
LADServer(name, enable_mdns, signing, available, keyfile) ==
    [agent_name |-> name,
     enable_mdns |-> enable_mdns,
     signing_config |->
         IF signing = "none" THEN <<>>
         ELSE <<[enabled |-> signing = "enabled" /\ available /\ Validate(keyfile)]>>,
     zeroconf |-> 0,
     service_info |-> <<>>,
     constructed |-> [signing |-> signing, available |-> available, keyfile |-> keyfile]]

\* A call on the server and how it ended.
ServerCall(op, accept, raised, response) ==
    [op |-> op, accept |-> accept, raised |-> raised, response |-> response]
NoCall == ServerCall(None, <<>>, FALSE, <<>>)

\* A multicast handle: a Zeroconf() object and the registrations it answers.
Handle(open, registered) == [open |-> open, registered |-> registered]

\* The process around the server: its handles, the key file and the module
\* flag SIGNING_AVAILABLE.
ServerNet(available, keyfile) ==
    [handles |-> <<>>, keyfile |-> keyfile, SIGNING_AVAILABLE |-> available,
     last |-> NoCall]

\* LADServer.get_agent_card
GetAgentCard(srv) == Card(srv.agent_name, OrgGrand)

\* LADServer.get_discovery_response: one agent entry and its card URL.
GetDiscoveryResponse(srv) ==
    [version |-> "1.0",
     agents |-> <<[name |-> srv.agent_name,
                   agent_card_url |-> HttpPrefix \o Host1 \o <<":">> \o Port1 \o DefaultPath]>>]

\* LADServer.get_signed_agent_card: the token, or nothing (<<>>) when signing
\* is off or sign_agent_card raises (validate() fails or the key does not load).
GetSignedAgentCard(srv, env) ==
    IF srv.signing_config = <<>> \/ ~srv.signing_config[1].enabled THEN <<>>
    ELSE IF ~env.SIGNING_AVAILABLE THEN <<>>
    ELSE IF ~Validate(env.keyfile) \/ env.keyfile # "ok" THEN <<>>
    ELSE <<SignAgentCard(GetAgentCard(srv), SigningConfig(TrustedKey, None, ES256), 1)>>

\* Accept header values; <<>> when the request has none, <<value>> otherwise.
AppJose == <<"a","p","p","l","i","c","a","t","i","o","n","/","j","o","s","e">>
TextPlain == <<"t","e","x","t","/","p","l","a","i","n">>
AppJson == <<"a","p","p","l","i","c","a","t","i","o","n","/","j","s","o","n">>
AcceptHeaders ==
    {<<>>} \cup
    { <<v>> : v \in {AppJson, AppJose, TextPlain, <<"*","/","*">>,
     AppJson \o <<",">> \o AppJose} }

\* An endpoint that takes only application/jose as a wish for a signed card.
WantsSignedJoseOnly(accept) ==
    LET accept_header == IF accept = <<>> THEN AppJson ELSE accept[1]
    IN  Contains(accept_header, AppJose)

\* wants_signed of the agent_card endpoint
WantsSigned(accept) ==
    LET accept_header == IF accept = <<>> THEN AppJson ELSE accept[1]
    IN  Contains(accept_header, AppJose) \/ Contains(accept_header, TextPlain)

\* A response: media type and body.
HttpResponse(media_type, body) == [media_type |-> media_type, body |-> body]

\* GET /.well-known/agent.json
AgentCardEndpoint(srv, env, accept) ==
    LET signed == GetSignedAgentCard(srv, env)
    IN  IF /\ WantsSigned(accept)
           /\ srv.signing_config # <<>>
           /\ srv.signing_config[1].enabled
           /\ signed # <<>>
        THEN HttpResponse("application/jose", signed[1])
        ELSE HttpResponse("application/json", GetAgentCard(srv))

\* A server constructed with any configuration, nothing called yet.
InitServer ==
    /\ \E n \in AgentNames, m \in BOOLEAN, s \in ServerSignings, a \in BOOLEAN,
          k \in KeyFileStates :
          /\ server = LADServer(n, m, s, a, k)
          /\ net = ServerNet(a, k)
    /\ client = [verify_tls |-> TRUE, signing_public_key |-> None, SIGNING_AVAILABLE |-> TRUE]
    /\ pc = "server"
    /\ args = NoArgs
    /\ heap = <<>>
    /\ listener = NewListener
    /\ zc = "none"
    /\ result = DiscoveryResult
    /\ idx = 0
    /\ approved = <<>>
    /\ nEvents = 0
    /\ wkCalls = 0
    /\ fetchLog = <<>>
    /\ lastFetch = NoFetch
    /\ preFilter = <<>>
    /\ discoverOut = <<>>
    /\ lookups = <<>>
    /\ jws = NoJws
    /\ consentLog = <<>>
    /\ lastEvent = NoEvent
    /\ clock = NoClock
    /\ ua = NoUa

\* LADServer.start_mdns; zc_ok and reg_ok tell whether Zeroconf() and
\* register_service succeed.  The ServiceInfo is built between the two try
\* blocks, so its exception leaves the call.
StartMdns(zc_ok, reg_ok) ==
    /\ pc = "server"
    /\ IF ~server.enable_mdns \/ ~zc_ok
       THEN /\ server' = server
            /\ net' = [net EXCEPT !.last = ServerCall("start_mdns", <<>>, FALSE, <<>>)]
       ELSE /\ Len(net.handles) < MaxHandles
            /\ LET h == Len(net.handles) + 1
               IN  IF ~ServiceInfoBuilds(server.agent_name)
                   THEN /\ server' = [server EXCEPT !.zeroconf = h]
                        /\ net' = [net EXCEPT
                                      !.handles = Append(net.handles, Handle(TRUE, FALSE)),
                                      !.last = ServerCall("start_mdns", <<>>, TRUE, <<>>)]
                   ELSE /\ server' = [server EXCEPT !.zeroconf = h,
                                                    !.service_info = <<server.agent_name>>]
                        /\ net' = [net EXCEPT
                                      !.handles = Append(net.handles, Handle(TRUE, reg_ok)),
                                      !.last = ServerCall("start_mdns", <<>>, FALSE, <<>>)]
    /\ UNCHANGED <<ua, clientVars>>

\* LADServer.stop_mdns; unregister_service and close share one try block, so
\* a failed unregister skips the close.  Calls on a closed handle raise
\* inside that block.
StopMdns(unreg_ok, close_ok) ==
    /\ pc = "server"
    /\ net' = [net EXCEPT
                  !.last = ServerCall("stop_mdns", <<>>, FALSE, <<>>),
                  !.handles =
                      IF /\ server.enable_mdns
                         /\ server.zeroconf # 0
                         /\ server.service_info # <<>>
                         /\ net.handles[server.zeroconf].open
                         /\ unreg_ok
                      THEN [net.handles EXCEPT ![server.zeroconf] =
                               Handle(~close_ok, FALSE)]
                      ELSE net.handles]
    /\ UNCHANGED <<server, ua, clientVars>>

\* A GET of /.well-known/agent.json with an Accept header.
AgentCardRequest(accept) ==
    /\ pc = "server"
    /\ net' = [net EXCEPT !.last = ServerCall("agent_card", accept, FALSE,
                                              <<AgentCardEndpoint(server, net, accept)>>)]
    /\ UNCHANGED <<server, ua, clientVars>>

\* A GET of /.well-known/lad/agents.
DiscoveryRequest ==
    /\ pc = "server"
    /\ net' = [net EXCEPT !.last = ServerCall("discovery", <<>>, FALSE,
                                              <<GetDiscoveryResponse(server)>>)]
    /\ UNCHANGED <<server, ua, clientVars>>

\* The key file is replaced, removed or restored while the server runs; a
\* configuration without a path stays without one.
KeyFileChanges(keyfile) ==
    /\ pc = "server"
    /\ keyfile # net.keyfile
    /\ "no_path" \notin {keyfile, net.keyfile}
    /\ net' = [net EXCEPT !.keyfile = keyfile, !.last = NoCall]
    /\ UNCHANGED <<server, ua, clientVars>>

NextServer ==
    \/ \E z \in BOOLEAN, r \in BOOLEAN : StartMdns(z, r)
    \/ \E u \in BOOLEAN, c \in BOOLEAN : StopMdns(u, c)
    \/ \E a \in AcceptHeaders : AgentCardRequest(a)
    \/ DiscoveryRequest
    \/ \E k \in KeyFileStates : KeyFileChanges(k)

\* A server and any sequence of calls on it.
SpecServer == InitServer /\ [][NextServer]_vars

\* --------------------------------------------------------- demo user agent

\* A2AServiceListener.add_service: the service dictionary it appends; the
\* scheme is always http.
UaService(name, info) ==
    LET base_url == HttpPrefix \o info.addresses[1] \o <<":">> \o info.port
    IN  [name |-> AgentNameOf(name),
         url |-> base_url,
         agent_card_url |-> base_url \o (IF info.path = <<>> THEN DefaultPath ELSE info.path)]

\* f"{target_url}/.well-known/lad/agents"
UaDiscoveryUrl(target_url) == target_url \o <<"/">> \o WellKnownRel

\* What the GET of the discovery URL gives the user agent: an exception, a
\* status other than 200, or a body with an agents list whose first entry
\* names a card URL (<<>> when the list is empty or the entry has none).
UaLadResponses ==
    { [kind |-> k, agent_card_url |-> <<>>] : k \in {"raises", "status_error", "ok"} }
    \cup { [kind |-> "ok", agent_card_url |-> <<UrlAiGrandHttp>>] }

\* What the GET of the card URL gives: an exception, a status other than
\* 200, or a card with or without a name.
UaCardResponses ==
    { [kind |-> k, name |-> <<>>] : k \in {"raises", "status_error", "ok"} }
    \cup { [kind |-> "ok", name |-> <<"Grand Azure Hotel">>] }

\* The user agent on a "discover" message, scanning; nothing found yet.
NewUa ==
    [pc |-> "scan", services |-> <<>>, i |-> 0, requests |-> <<>>,
     agent_card_url |-> <<>>, card_name |-> <<>>, agent |-> <<>>, discovered |-> <<>>]

InitUa ==
    /\ ua = NewUa
    /\ client = [verify_tls |-> TRUE, signing_public_key |-> None, SIGNING_AVAILABLE |-> TRUE]
    /\ pc = "user_agent"
    /\ args = NoArgs
    /\ heap = <<>>
    /\ listener = NewListener
    /\ zc = "none"
    /\ result = DiscoveryResult
    /\ idx = 0
    /\ approved = <<>>
    /\ nEvents = 0
    /\ wkCalls = 0
    /\ fetchLog = <<>>
    /\ lastFetch = NoFetch
    /\ preFilter = <<>>
    /\ discoverOut = <<>>
    /\ lookups = <<>>
    /\ jws = NoJws
    /\ consentLog = <<>>
    /\ lastEvent = NoEvent
    /\ clock = NoClock
    /\ server = NoServer
    /\ net = NoNet

\* A2AServiceListener.add_service during discover_via_mdns
UaAddService(name, info) ==
    /\ ua.pc = "scan"
    /\ Len(ua.services) < MaxAgents
    /\ info.found /\ info.addresses # <<>>
    /\ ua' = [ua EXCEPT !.services = Append(ua.services, UaService(name, info))]
    /\ UNCHANGED <<server, net, clientVars>>

\* discover_via_mdns returns; the loop over mdns_services starts.
UaScanEnds ==
    /\ ua.pc = "scan"
    /\ ua' = [ua EXCEPT !.pc = IF ua.services = <<>> THEN "complete" ELSE "lad", !.i = 1]
    /\ UNCHANGED <<server, net, clientVars>>

\* fetch_agent_from_service, Steps 1 and 2: the GET of the discovery URL,
\* then the TXT record's URL if the response named none.
UaLadRequest(resp) ==
    /\ ua.pc = "lad"
    /\ LET service == ua.services[ua.i]
           found == IF resp.kind = "ok" THEN resp.agent_card_url ELSE <<>>
           agent_card_url == IF found = <<>> THEN <<service.agent_card_url>> ELSE found
       IN  ua' = [ua EXCEPT !.requests = <<UaDiscoveryUrl(service.url)>>,
                            !.agent_card_url = agent_card_url,
                            !.card_name = <<>>,
                            !.agent = <<>>,
                            !.pc = "card"]
    /\ UNCHANGED <<server, net, clientVars>>

\* fetch_agent_from_service, Step 3: the GET of the card URL and the
\* DiscoveredAgent built from the card; then the caller appends the agent.
UaCardRequest(resp) ==
    /\ ua.pc = "card"
    /\ LET agent == IF resp.kind = "ok"
                    THEN <<[name |-> IF resp.name = <<>> THEN "Unknown Agent"
                                     ELSE resp.name[1],
                            agent_card_url |-> ua.agent_card_url[1]]>>
                    ELSE <<>>
       IN  ua' = [ua EXCEPT !.requests = Append(ua.requests, ua.agent_card_url[1]),
                            !.card_name = IF resp.kind = "ok" THEN resp.name ELSE <<>>,
                            !.agent = agent,
                            !.discovered = ua.discovered \o agent,
                            !.pc = "handled"]
    /\ UNCHANGED <<server, net, clientVars>>

\* The loop goes on to the next service, or the scan is complete.
UaNextService ==
    /\ ua.pc = "handled"
    /\ ua' = IF ua.i < Len(ua.services)
             THEN [ua EXCEPT !.pc = "lad", !.i = ua.i + 1, !.requests = <<>>,
                             !.agent_card_url = <<>>, !.card_name = <<>>,
                             !.agent = <<>>]
             ELSE [ua EXCEPT !.pc = "complete"]
    /\ UNCHANGED <<server, net, clientVars>>

NextUa ==
    \/ \E n \in ServiceNames, i \in ServiceInfos : UaAddService(n, i)
    \/ UaScanEnds
    \/ \E r \in UaLadResponses : UaLadRequest(r)
    \/ \E r \in UaCardResponses : UaCardRequest(r)
    \/ UaNextService

\* The demo user agent handling one "discover" message.
SpecUa == InitUa /\ [][NextUa]_vars

\* ------------------------------------------------------------------ claims

\* The agent object id is verified.
Verified(id) == heap[id].verified

\* The mDNS stage has ended and returned at least one agent: the objects that
\* add_service created and remove_service did not drop are the list returned.
MdnsYielded ==
    /\ pc \notin {"idle", "mdns_window", "direct"}
    /\ \E i \in DOMAIN heap : heap[i].source = "mdns"

\* C1: once the mDNS stage of discover() has returned at least one agent,
\* discover_wellknown is never invoked in that call and discovery_method is
\* "mdns", whatever the card fetches and the require_verified filter do.
C1_MdnsForeclosesWellknown ==
    MdnsYielded =>
        /\ wkCalls = 0
        /\ pc # "wellknown"
        /\ result.discovery_method = "mdns"

\* C1 witness: a finished call with a fallback URL whose mDNS agents were all
\* removed by the require_verified filter, one of them after a failed fetch.
C1_Witness ==
    /\ pc = "done"
    /\ MdnsYielded
    /\ args.fallback_url # <<>>
    /\ args.require_verified
    /\ preFilter # <<>>
    /\ result.agents = <<>>
    /\ result.errors # <<>>

\* The latest fetch_agent_card call: the agent as the response handling left
\* it, before the domain check.
LastHandled == HandleCardResponse(client, lastFetch.pre, lastFetch.resp)
LastFetched == lastFetch.id # 0
LastReachedDomainCheck ==
    /\ LastFetched
    /\ lastFetch.resp.kind \in {"json", "jose"}
    /\ ~LastHandled.raised

\* The latest call received a signed token whose signature verification failed.
LastSignatureFailed ==
    /\ LastFetched
    /\ lastFetch.resp.kind = "jose"
    /\ client.SIGNING_AVAILABLE
    /\ client.signing_public_key # None
    /\ LET v == VerifyAgentCard(lastFetch.resp.token, client.signing_public_key)
       IN  ~v.raised /\ ~v.valid

\* C2: a fetch_agent_card call whose signed response fails signature
\* verification leaves an agent that was unverified before the call unverified.
C2_FailedSignatureNeverVerifies ==
    (LastSignatureFailed /\ ~lastFetch.pre.verified) => ~heap[lastFetch.id].verified

\* C3: every agent with verified = true has a verification_method among tls,
\* domain and jws.
C3_VerifiedHasMethod ==
    \A i \in DOMAIN heap :
        heap[i].verified => heap[i].verification_method \in {"tls", "domain", "jws"}

\* C3 witness: a returned result holding an agent verified by domain and an
\* unverified agent.
C3_Witness ==
    /\ pc = "done"
    /\ \E i \in 1..Len(result.agents) :
          /\ heap[result.agents[i]].verified
          /\ heap[result.agents[i]].verification_method = "domain"
    /\ \E i \in 1..Len(result.agents) : ~heap[result.agents[i]].verified

\* The decision the callback of the call gives for the agent id.
DecisionFor(id) == Callback(args.consent, ConsentRequest(heap[id]))

\* C4: discover_with_consent returns exactly the agents of discover()'s
\* result that the callback approved, in their original order.
C4_ConsentKeepsApproved ==
    (pc = "done" /\ args.consent # "off") =>
        result.agents = SelectSeq(discoverOut, LAMBDA id : DecisionFor(id) = "approved")

\* C4 witness: a finished call with a caller-supplied callback that approved
\* one agent and deferred another.
C4_Witness ==
    /\ pc = "done"
    /\ args.consent = "custom"
    /\ result.agents # <<>>
    /\ \E i \in 1..Len(discoverOut) : DecisionFor(discoverOut[i]) = "deferred"

\* C5: without a callback, discover_with_consent returns exactly the verified
\* agents of discover()'s result, in order.
C5_DefaultKeepsVerified ==
    (pc = "done" /\ args.consent = "default") =>
        result.agents = SelectSeq(discoverOut, Verified)

\* C5 witness: a finished call with the default callback that kept a verified
\* agent and dropped an unverified one.
C5_Witness ==
    /\ pc = "done"
    /\ args.consent = "default"
    /\ ~args.require_verified
    /\ result.agents # <<>>
    /\ \E i \in 1..Len(discoverOut) : ~Verified(discoverOut[i])

\* C6: with require_verified, discover() returns the verified agents of the
\* list the card-fetch stage left, all of them and in order.
C6_RequireVerifiedFilters ==
    (args.require_verified /\ pc \in {"consent", "done"}) =>
        /\ \A i \in 1..Len(discoverOut) : Verified(discoverOut[i])
        /\ \A i \in 1..Len(preFilter) :
              Verified(preFilter[i]) => \E j \in 1..Len(discoverOut) : discoverOut[j] = preFilter[i]
        /\ discoverOut = SelectSeq(preFilter, Verified)

\* C6 witness: discover() returned with require_verified after the filter
\* kept one agent and removed another.
C6_Witness ==
    /\ pc = "done"
    /\ args.require_verified
    /\ discoverOut # <<>>
    /\ Len(discoverOut) < Len(preFilter)

\* C7: an agent that the response handling of a fetch_agent_card call has
\* just verified by jws or by tls keeps that method after the domain check.
C7_DomainKeepsStrongerMethod ==
    (/\ LastReachedDomainCheck
     /\ LastHandled.agent.verified
     /\ LastHandled.agent.verification_method \in {"jws", "tls"}) =>
        heap[lastFetch.id].verification_method = LastHandled.agent.verification_method

\* urlparse(url).hostname: the netloc without userinfo and port, lower-cased.
Hostname(url) ==
    LET nl == Netloc(url)
        at == IF \E i \in 1..Len(nl) : nl[i] = "@"
              THEN CHOOSE i \in 1..Len(nl) : nl[i] = "@" /\ \A j \in (i + 1)..Len(nl) : nl[j] # "@"
              ELSE 0
    IN  Lower(SplitFirst(SubSeq(nl, at + 1, Len(nl)), ":"))

\* The organization, lower-cased and without spaces, is part of the hostname.
OrgInHostname(organization, url) ==
    Contains(Hostname(url), StripSpaces(Lower(organization)))

\* C8: when the card's organization is absent or does not match the hostname
\* of agent_card_url, the domain check changes no field of the agent.
C8_MismatchChangesNothing ==
    (/\ LastReachedDomainCheck
     /\ LastHandled.agent.agent_card # <<>>
     /\ \/ Organization(LastHandled.agent) = <<>>
        \/ ~OrgInHostname(Organization(LastHandled.agent), lastFetch.pre.agent_card_url)) =>
        heap[lastFetch.id] = LastHandled.agent

\* C9: an agent that reaches the domain check unverified is upgraded to
\* verified by domain exactly when the normalized organization is non-empty
\* and is part of the host the check takes from agent_card_url.
C9_UpgradeIffNormalizedMatch ==
    (/\ LastReachedDomainCheck
     /\ LastHandled.agent.agent_card # <<>>
     /\ ~LastHandled.agent.verified
     /\ LastHandled.agent.verification_method = None) =>
        LET org == StripSpaces(Lower(Organization(LastHandled.agent)))
            upgraded == /\ heap[lastFetch.id].verified
                        /\ heap[lastFetch.id].verification_method = "domain"
        IN  upgraded <=> (org # <<>> /\ Contains(Lower(CardDomain(lastFetch.pre.agent_card_url)), org))

\* An agent object no fetch_agent_card call has touched.
Untouched(id) == heap[id].agent_card = <<>> /\ heap[id].verification_error = NoError

\* The fetch diagnostics in result.errors.
FetchErrors == SelectSeq(result.errors, LAMBDA e : e.kind = "Failed to fetch AgentCard for")

\* The fetched agents whose fetch raised (the raising response of these runs
\* is the HTTP status error, which fetch_agent_card records on the agent).
FailedFetches == SelectSeq(fetchLog, LAMBDA id : heap[id].verification_error.kind = "HTTP error")

\* C10: the card-fetch stage fetches every discovered agent once, in list
\* order; a failure adds one diagnostic, keeps the agent in the list and
\* leaves the agents not yet fetched as discovery created them.
C10_FetchLoopIsolation ==
    /\ pc = "fetch" =>
          /\ fetchLog = SubSeq(result.agents, 1, idx - 1)
          /\ \A j \in idx..Len(result.agents) : Untouched(result.agents[j])
    /\ (pc \in {"filter", "consent", "done"} /\ args.fetch_cards) =>
          fetchLog = (IF pc = "filter" THEN result.agents ELSE preFilter)
    /\ pc \in {"fetch", "filter"} => result.agents = [i \in 1..Len(heap) |-> i]
    /\ Len(FetchErrors) = Len(FailedFetches)
    /\ \A i \in 1..Len(FetchErrors) : FetchErrors[i].name = heap[FailedFetches[i]].name

\* C10 witness: the stage ended after the fetch of the first agent failed and
\* the fetch of the second one verified it.
C10_Witness ==
    /\ pc = "filter"
    /\ Len(fetchLog) = 2
    /\ heap[fetchLog[1]].verification_error.kind = "HTTP error"
    /\ heap[fetchLog[2]].verified
    /\ heap[fetchLog[2]].verification_error = NoError
    /\ Len(result.errors) = 1

\* s is an initial segment of t.
IsPrefix(s, t) == Len(s) <= Len(t) /\ SubSeq(t, 1, Len(s)) = s

\* The lookups of the call that failed.
FailedLookups == SelectSeq(lookups, LAMBDA l : l.outcome # "ok")

\* C11: discover() never raises and always returns a DiscoveryResult: a call
\* that has not returned can always take its next step, whichever stages have
\* failed, what it returns has the fields of a DiscoveryResult, and every step
\* of the call leaves the entries result.errors already had in place.
C11_DiscoverNeverRaises ==
    /\ [](pc # "done" => ENABLED Next)
    /\ [](pc = "done" =>
            /\ DOMAIN result = {"agents", "discovery_method", "errors"}
            /\ result.discovery_method \in {"none", "mdns", "wellknown"}
            /\ \A i \in 1..Len(result.agents) : result.agents[i] \in DOMAIN heap)
    /\ [][pc # "idle" => IsPrefix(result.errors, result'.errors)]_vars

\* C11 witness: a returned call whose mDNS stage failed, whose well-known
\* lookup answered and whose two card fetches both failed.
C11_Witness ==
    /\ pc = "done"
    /\ args.consent = "off"
    /\ FailedLookups # <<>>
    /\ FailedLookups[1].stage = "mdns"
    /\ Len(FetchErrors) = 2
    /\ Len(result.agents) = 2


\* The diagnostics of the two lookup stages in result.errors.
LookupErrors ==
    SelectSeq(result.errors,
              LAMBDA e : e.kind \in {"mDNS discovery failed", "Well-known discovery failed"})

\* The diagnostic prefix discover() uses for a failure of the stage.
LookupErrorKind(stage) ==
    IF stage = "mdns" THEN "mDNS discovery failed" ELSE "Well-known discovery failed"

\* C12: every failed lookup of a discover() call, mDNS or well-known, has its
\* diagnostic in result.errors: one entry for each failed lookup, in the order
\* of the failures.
C12_LookupFailuresRecorded ==
    pc # "idle" =>
        /\ Len(LookupErrors) = Len(FailedLookups)
        /\ \A i \in 1..Len(LookupErrors) :
              LookupErrors[i].kind = LookupErrorKind(FailedLookups[i].stage)


\* The mDNS stage of the call ran without failure and returned agents.
MdnsContributed ==
    \E i \in 1..Len(lookups) :
        /\ lookups[i].stage = "mdns"
        /\ lookups[i].outcome = "ok"
        /\ lookups[i].returned # <<>>

\* Step 2 of the call is behind it.
PastLookups == pc \in {"fetch", "filter", "consent", "done"}

\* C13: a discover() call invokes discover_wellknown once when a fallback_url
\* is given and the mDNS stage contributed no agents (not tried, failed, or
\* returned none), and never otherwise.
C13_WellknownOnceIffNeeded ==
    /\ wkCalls <= 1
    /\ PastLookups =>
          wkCalls = (IF args.fallback_url # <<>> /\ ~MdnsContributed THEN 1 ELSE 0)

\* C13 witness: a returned call whose mDNS window closed without agents and
\* which then consulted the well-known endpoint, once.
C13_Witness ==
    /\ pc = "done"
    /\ args.try_mdns
    /\ Len(lookups) = 2
    /\ lookups[1] = Lookup("mdns", "ok", <<>>)
    /\ lookups[2].stage = "wellknown"
    /\ wkCalls = 1


\* result.agents as discover() has it or has returned it (the consent gate of
\* discover_with_consent works on the returned result).
DiscoverAgents == IF pc \in {"consent", "done"} THEN discoverOut ELSE result.agents

\* The well-known lookup of the call answered with a parsed response.
WellknownAnswered ==
    /\ lookups # <<>>
    /\ lookups[Len(lookups)].stage = "wellknown"
    /\ lookups[Len(lookups)].outcome = "ok"

\* The entries of that response.
WellknownEntries == lookups[Len(lookups)].returned

\* discover() holds one agent per entry of the response, in response order,
\* each with source "wellknown".
AgentsAreEntries ==
    /\ Len(DiscoverAgents) = Len(WellknownEntries)
    /\ \A i \in 1..Len(DiscoverAgents) :
          /\ heap[DiscoverAgents[i]].name = WellknownEntries[i].name
          /\ heap[DiscoverAgents[i]].agent_card_url = WellknownEntries[i].agent_card_url
          /\ heap[DiscoverAgents[i]].source = "wellknown"

\* C14 as stated: with mDNS disabled and require_verified off, a well-known
\* response of N >= 0 entries gives N agents in response order, each with
\* source "wellknown", and discovery_method "wellknown", whatever the card
\* fetches do.
C14_WellknownCountAndMethod ==
    (PastLookups /\ ~args.try_mdns /\ ~args.require_verified /\ WellknownAnswered) =>
        /\ AgentsAreEntries
        /\ result.discovery_method = "wellknown"

\* C14 amended: the same, with discovery_method "wellknown" for N >= 1 and
\* "none" for the response without entries.
C14_WellknownCountAndMethodNonEmpty ==
    (PastLookups /\ ~args.try_mdns /\ ~args.require_verified /\ WellknownAnswered) =>
        /\ AgentsAreEntries
        /\ result.discovery_method =
              (IF WellknownEntries # <<>> THEN "wellknown" ELSE "none")

\* C14 witness: discover() returned the two agents of a two-entry response in
\* order although the fetch of the first card failed.
C14_Witness ==
    /\ pc = "done"
    /\ args.consent = "off"
    /\ ~args.try_mdns
    /\ ~args.require_verified
    /\ WellknownAnswered
    /\ Len(WellknownEntries) = 2
    /\ WellknownEntries[1] # WellknownEntries[2]
    /\ result.agents = <<1, 2>>
    /\ heap[1].verification_error.kind = "HTTP error"
    /\ result.discovery_method = "wellknown"


\* Every lookup the call made ended without failure and without agents.
AllLookupsSilent ==
    \A i \in 1..Len(lookups) : lookups[i].outcome = "ok" /\ lookups[i].returned = <<>>

\* C15: when no lookup of the call fails and none yields an agent (mDNS off or
\* silent, no fallback URL or a well-known answer without agents), discover()
\* returns discovery_method "none", no agents and no errors.
C15_NothingFoundIsNone ==
    (PastLookups /\ AllLookupsSilent) =>
        /\ pc # "fetch"
        /\ result = DiscoveryResult
        /\ DiscoverAgents = <<>>

\* C15 witness: a returned call whose mDNS window closed silent and whose
\* well-known endpoint answered with an empty agents array.
C15_Witness ==
    /\ pc = "done"
    /\ lookups = <<Lookup("mdns", "ok", <<>>), Lookup("wellknown", "ok", <<>>)>>
    /\ args.fetch_cards
    /\ result = DiscoveryResult


\* The latest fetch_agent_card call received a plain JSON card.
LastWasPlainJson == LastFetched /\ lastFetch.resp.kind = "json"

\* The card URL of the latest call is https and the client verifies TLS.
LastUsedVerifiedTls ==
    StartsWith(lastFetch.pre.agent_card_url, HttpsPrefix) /\ client.verify_tls

\* C16: on a plain JSON response fetch_agent_card stores the parsed body as
\* agent_card; with an https agent_card_url and verify_tls it marks the agent
\* verified by tls, and otherwise the JSON step leaves verified and
\* verification_method as they were before the call.
C16_PlainJsonTlsMarking ==
    LastWasPlainJson =>
        LET a == LastHandled.agent
        IN  /\ ~LastHandled.raised
            /\ a.agent_card = <<lastFetch.resp.card>>
            /\ heap[lastFetch.id].agent_card = <<lastFetch.resp.card>>
            /\ IF LastUsedVerifiedTls
               THEN /\ a.verified /\ a.verification_method = "tls"
                    /\ heap[lastFetch.id].verified
                    /\ heap[lastFetch.id].verification_method = "tls"
               ELSE /\ a.verified = lastFetch.pre.verified
                    /\ a.verification_method = lastFetch.pre.verification_method
                    /\ heap[lastFetch.id] = VerifyDomain(a)

\* C16 witness: a plain JSON fetch over a connection that is not verified TLS,
\* of an agent an earlier fetch had verified by jws; the JSON step kept that.
C16_Witness ==
    /\ LastWasPlainJson
    /\ ~LastUsedVerifiedTls
    /\ lastFetch.pre.verified
    /\ lastFetch.pre.verification_method = "jws"
    /\ LastHandled.agent.verification_method = "jws"
    /\ LastHandled.agent.agent_card # lastFetch.pre.agent_card


\* fetch_agent_card has been called on the agent object id.
Fetched(id) == \E k \in 1..Len(fetchLog) : fetchLog[k] = id

\* The discovery URL of the call is https and the client verifies TLS.
DiscoveryUsedVerifiedTls ==
    StartsWith(DiscoveryUrl(args.fallback_url), HttpsPrefix) /\ client.verify_tls

\* C17: an agent as discover_wellknown returned it (before any card fetch) has
\* source "wellknown"; it is verified with method tls when the discovery URL
\* is https and verify_tls is on, whatever the scheme of its agent_card_url,
\* and otherwise unverified with no method.
C17_WellknownTlsFromDiscoveryUrl ==
    (WellknownAnswered /\ PastLookups) =>
        \A i \in 1..Len(WellknownEntries) :
            ~Fetched(i) =>
                /\ heap[i].source = "wellknown"
                /\ heap[i].agent_card_url = WellknownEntries[i].agent_card_url
                /\ IF DiscoveryUsedVerifiedTls
                   THEN heap[i].verified /\ heap[i].verification_method = "tls"
                   ELSE ~heap[i].verified /\ heap[i].verification_method = None

\* C17 witness: an https discovery with verify_tls returned an agent whose own
\* card URL is http, verified by tls, and next to it one with an https URL.
C17_Witness ==
    /\ pc = "filter"
    /\ ~args.fetch_cards
    /\ WellknownAnswered
    /\ DiscoveryUsedVerifiedTls
    /\ \E i \in DOMAIN heap :
          /\ StartsWith(heap[i].agent_card_url, HttpPrefix)
          /\ heap[i].verified /\ heap[i].verification_method = "tls"
    /\ \E i \in DOMAIN heap : StartsWith(heap[i].agent_card_url, HttpsPrefix)


\* The well-known lookup of the call raised.
WellknownFailed ==
    /\ lookups # <<>>
    /\ lookups[Len(lookups)].stage = "wellknown"
    /\ lookups[Len(lookups)].outcome # "ok"

\* The well-known diagnostics in result.errors.
WellknownErrors ==
    SelectSeq(result.errors, LAMBDA e : e.kind = "Well-known discovery failed")

\* C18: discover_wellknown gives all or nothing. When it returns, the call
\* holds one agent per entry of the response, in order; when it raises (HTTP
\* status, transport, unparsable body, malformed entry) the call holds no
\* well-known agent and exactly one well-known diagnostic, that of the failure.
C18_WellknownAllOrNothing ==
    /\ (WellknownAnswered /\ pc # "idle") =>
          /\ Len(heap) = Len(WellknownEntries)
          /\ \A i \in 1..Len(heap) :
                /\ heap[i].source = "wellknown"
                /\ heap[i].name = WellknownEntries[i].name
                /\ heap[i].agent_card_url = WellknownEntries[i].agent_card_url
          /\ pc \in {"fetch", "filter"} => result.agents = [i \in 1..Len(heap) |-> i]
          /\ WellknownErrors = <<>>
    /\ (WellknownFailed /\ pc # "idle") =>
          /\ \A i \in DOMAIN heap : heap[i].source # "wellknown"
          /\ result.agents = <<>>
          /\ Len(WellknownErrors) = 1
          /\ WellknownErrors[1].exc = lookups[Len(lookups)].outcome
          /\ result.discovery_method = "none"
    /\ (~WellknownAnswered /\ ~WellknownFailed) => WellknownErrors = <<>>

\* C18 witness: a returned call whose mDNS window was silent and whose
\* well-known response had an entry without its name: no agents, one diagnostic.
C18_Witness ==
    /\ pc = "done"
    /\ Len(lookups) = 2
    /\ WellknownFailed
    /\ lookups[2].outcome = "KeyError"
    /\ result.agents = <<>>
    /\ Len(result.errors) = 1


\* C19: a fetch_agent_card call whose signed response fails signature
\* verification returns without raising, leaves the agent unverified even if
\* discovery had marked it verified, and changes no other agent.
C19_SignatureFailureDowngrades ==
    [][(pc = "fetch" /\ LastSignatureFailed') =>
          /\ result'.errors = result.errors
          /\ ~heap'[lastFetch'.id].verified
          /\ \A j \in DOMAIN heap : j # lastFetch'.id => heap'[j] = heap[j]]_vars


\* The token of the round was verified with the public key of the pair that
\* signed it.
VerifiedWithMatchingKey ==
    /\ jws.stage = "verified"
    /\ jws.origin = "sign_agent_card"
    /\ jws.token = jws.signed
    /\ jws.public_key = jws.config.private_key

\* C20 as stated: for any JSON-serializable card and any key pair, verifying
\* the signed card with the matching public key gives valid, agent_card equal
\* to the card, key_id equal to the configured key id (none when not
\* configured) and signed_at set.
C20_SignVerifyRoundTrip ==
    VerifiedWithMatchingKey =>
        /\ jws.result.valid
        /\ jws.result.agent_card = <<jws.agent_card>>
        /\ jws.result.key_id = jws.config.key_id
        /\ jws.result.signed_at # <<>>

\* C20 amended: under the default ES256 algorithm the card comes back equal
\* when it is its own JSON reading (lists, not tuples), and key_id is none
\* also for an empty configured id.
C20_SignVerifyRoundTripJsonCard ==
    VerifiedWithMatchingKey /\ jws.config.algorithm = ES256 =>
        /\ jws.result.valid
        /\ ~jws.result.raised
        /\ jws.result.error = None
        /\ jws.result.agent_card = <<LoadCard(DumpCard(jws.agent_card))>>
        /\ LoadCard(DumpCard(jws.agent_card)) = jws.agent_card
              => jws.result.agent_card = <<jws.agent_card>>
        /\ jws.result.key_id =
              (IF jws.config.key_id = "" THEN None ELSE jws.config.key_id)
        /\ jws.result.signed_at = <<jws.token.payload.iat>>

\* C20 witness: a card with a non-empty skills list, signed under a key id and
\* verified with the matching key, came back equal with that key id.
C20_Witness ==
    /\ VerifiedWithMatchingKey
    /\ jws.agent_card.skills = PyList(<<"concierge">>)
    /\ jws.config.key_id = "test-key-v1"
    /\ jws.result.valid
    /\ jws.result.agent_card = <<jws.agent_card>>
    /\ jws.result.key_id = "test-key-v1"


\* A token sign_agent_card wrote under the default algorithm had one
\* character of its payload segment changed and was then verified with the
\* public key of the pair that signed it.
TamperedAndVerified ==
    /\ jws.stage = "verified"
    /\ jws.origin = "sign_agent_card"
    /\ jws.config.algorithm = ES256
    /\ jws.token # jws.signed
    /\ jws.public_key = jws.config.private_key

\* C21 as stated: whatever character of the payload segment is changed,
\* verification with the matching key returns valid=false classified as an
\* invalid signature, without raising.
C21_TamperLaw ==
    TamperedAndVerified =>
        /\ ~jws.result.raised
        /\ ~jws.result.valid
        /\ jws.result.error = "Invalid signature"

\* C21 amended: verification of the tampered token returns valid=false with
\* no card and without raising; the class is invalid-signature while the
\* changed segment is still base64url text and decode-error once it is not.
C21_TamperLawByAlphabet ==
    TamperedAndVerified =>
        /\ ~jws.result.raised
        /\ ~jws.result.valid
        /\ jws.result.agent_card = <<>>
        /\ jws.result.error =
              (IF SegmentDecodes(jws.token.payload.segment)
               THEN "Invalid signature" ELSE "Failed to decode token")

\* C21 witness: a character was replaced by another base64url character and
\* the matching key reported an invalid signature.
C21_Witness ==
    /\ TamperedAndVerified
    /\ SegmentDecodes(jws.token.payload.segment)
    /\ jws.token.payload.agent_card = jws.signed.payload.agent_card
    /\ jws.result.error = "Invalid signature"

\* The key pair whose private half wrote the signature of the round's token.
IssuerKey == IF jws.origin = "sign_agent_card" THEN jws.config.private_key ELSE TrustedKey

\* C22: verification reports valid only for a token that reaches the verifier
\* as its issuer wrote it, signed under an allow-listed algorithm by the pair
\* whose public key is supplied; an untouched ES256 token of sign_agent_card
\* checked against another pair's public key is invalid with an error naming
\* the signature.
C22_ValidOnlyWithMatchingKey ==
    jws.stage = "verified" =>
        /\ jws.result.valid =>
              /\ jws.token = jws.signed
              /\ jws.public_key = IssuerKey
              /\ jws.token.alg \in DefaultAlgorithms
        /\ (/\ jws.origin = "sign_agent_card"
            /\ jws.public_key \in Keys \ {jws.config.private_key})
              => /\ ~jws.result.valid
                 /\ (jws.token = jws.signed /\ jws.config.algorithm \in DefaultAlgorithms)
                       => jws.result.error = "Invalid signature"

\* C22 witness: an untouched ES256 token checked against the other pair's
\* public key was rejected for its signature.
C22_Witness ==
    /\ jws.stage = "verified"
    /\ jws.origin = "sign_agent_card"
    /\ jws.token = jws.signed
    /\ jws.config.algorithm = ES256
    /\ jws.config.private_key = TrustedKey
    /\ jws.public_key = AttackerKey
    /\ ~jws.result.valid
    /\ jws.result.error = "Invalid signature"

\* The error classes of a failed verification.
FailureClasses ==
    {"Token has expired", "Invalid signature", "Failed to decode token",
     "Verification failed", "No public key provided for verification"}

\* C23: every verify_agent_card call returns a result and raises nothing,
\* and the result is either valid with a card and no error, or invalid with
\* one error class and no card.
C23_VerifyAlwaysReturns ==
    jws.stage = "verified" =>
        /\ ~jws.result.raised
        /\ \/ /\ jws.result.valid
              /\ jws.result.agent_card # <<>>
              /\ jws.result.error = None
           \/ /\ ~jws.result.valid
              /\ jws.result.agent_card = <<>>
              /\ jws.result.error \in FailureClasses


\* The callback history in which each of the agents ids is called once, in
\* order, each call returning before the next one.
CallsInOrder(ids) ==
    [k \in 1..(2 * Len(ids)) |->
        ConsentEvent(IF k % 2 = 1 THEN "call" ELSE "return", ids[(k + 1) \div 2])]

\* C29: when discover_with_consent has ended, the consent callback was called
\* exactly once for each agent of discover()'s result and for no other, in
\* list order, each call completed before the next began, and the approved
\* agents are those the callback approves, however the callback hands back
\* its response.
C29_CallbackOncePerAgentInOrder ==
    /\ pc \in {"done", "raised"} /\ args.consent # "off" =>
          /\ consentLog = CallsInOrder(discoverOut)
          /\ discoverOut # <<>> =>
                result.agents =
                    SelectSeq(discoverOut,
                              LAMBDA id : Callback(args.consent, ConsentRequest(heap[id]))
                                              = "approved")
    /\ pc = "consent" => \E k \in 0..Len(discoverOut) :
                            consentLog = CallsInOrder(SubSeq(discoverOut, 1, k))


\* The listener's entries for a service name.
EntriesFor(name) ==
    { j \in 1..Len(listener.agents) : heap[listener.agents[j]].name = AgentNameOf(name) }

\* The URL an event's service info stands for, if it carries one.
EventUrl(info) ==
    IF info.found /\ info.addresses # <<>>
    THEN <<ServiceUrl(UseHttps(args.fallback_url), info)>> ELSE <<>>

\* C25: an update event for a known name whose info gives another URL
\* rewrites that entry's agent_card_url in place, sets verified to false and
\* agent_card to none and adds no entry; an update for an unknown name, or
\* with the same URL, changes nothing.
C25_UpdateRewritesInPlace ==
    [][lastEvent'.op = "update" /\ nEvents' = nEvents + 1 =>
          LET id == listener.by_name[lastEvent'.name]
              url == EventUrl(lastEvent'.info)
          IN  /\ listener' = listener
              /\ Len(heap') = Len(heap)
              /\ IF id # 0 /\ url # <<>> /\ url # <<heap[id].agent_card_url>>
                 THEN /\ heap'[id].agent_card_url = url[1]
                      /\ ~heap'[id].verified
                      /\ heap'[id].agent_card = <<>>
                      /\ heap'[id].name = heap[id].name
                      /\ \A k \in 1..Len(heap) : k # id => heap'[k] = heap[k]
                 ELSE heap' = heap]_vars

\* C25 witness: an update moved an agent that had been fetched and verified
\* to another port, and the entry is unverified without a card.
C25_Witness ==
    /\ lastEvent.op = "update"
    /\ listener.by_name[lastEvent.name] # 0
    /\ Len(listener.agents) = 1
    /\ LET a == heap[listener.by_name[lastEvent.name]]
       IN  /\ <<a.agent_card_url>> = EventUrl(lastEvent.info)
           /\ lastFetch.id # 0
           /\ a.verification_method = "tls"
           /\ ~a.verified
           /\ a.agent_card = <<>>

\* C26: the listener's list holds exactly one entry for each service name
\* added and not removed since, and none for any other name.
C26_OneEntryPerName ==
    pc \in {"mdns_window", "listening"} =>
        \A n \in ServiceNames :
            Cardinality(EntriesFor(n)) = (IF listener.by_name[n] # 0 THEN 1 ELSE 0)


\* The Accept values that ask for a signed format.
SignedAccepts == {<<AppJose>>, <<TextPlain>>, <<AppJson \o <<",">> \o AppJose>>}

\* Signing is enabled on the server and sign_agent_card would succeed now.
SigningWorks ==
    /\ server.signing_config # <<>>
    /\ server.signing_config[1].enabled
    /\ net.SIGNING_AVAILABLE
    /\ net.keyfile = "ok"

\* C24: the AgentCard endpoint answers with the signed token as
\* application/jose exactly when the Accept header asks for a signed format,
\* signing is enabled and signing succeeds; otherwise it answers with the
\* plain JSON card; it never fails.
C24_SignedIffRequestedAndSigning ==
    net.last.op = "agent_card" =>
        /\ ~net.last.raised
        /\ net.last.response # <<>>
        /\ LET response == net.last.response[1]
           IN  IF net.last.accept \in SignedAccepts /\ SigningWorks
               THEN /\ response.media_type = "application/jose"
                    /\ VerifyWithKey(response.body, TrustedKey).valid
                    /\ VerifyWithKey(response.body, TrustedKey).agent_card
                          = <<GetAgentCard(server)>>
               ELSE /\ response.media_type = "application/json"
                    /\ response.body = GetAgentCard(server)

\* C24 witness: a request asking for text/plain was answered with a token.
C24_Witness ==
    /\ net.last.op = "agent_card"
    /\ net.last.accept = <<TextPlain>>
    /\ net.last.response # <<>>
    /\ net.last.response[1].media_type = "application/jose"

\* The handles that are open, and those that answer for a registration.
OpenHandles(handles) == { h \in 1..Len(handles) : handles[h].open }
Registrations(handles) == { h \in 1..Len(handles) : handles[h].registered }

\* start_mdns has run and its one handle is open and registered.
MdnsStarted ==
    /\ server.zeroconf # 0
    /\ OpenHandles(net.handles) = {server.zeroconf}
    /\ Registrations(net.handles) = {server.zeroconf}

\* stop_mdns has nothing to stop: never started, or the handle is closed.
MdnsStopped == server.zeroconf = 0 \/ ~net.handles[server.zeroconf].open

\* C27: start_mdns on a started server leaves exactly one open handle and
\* one registration; stop_mdns on a server never started or already stopped
\* changes nothing; with mDNS disabled both change nothing.
C27_StartStopIdempotent ==
    [][/\ (net'.last.op = "start_mdns" /\ MdnsStarted) =>
              /\ Cardinality(OpenHandles(net'.handles)) = 1
              /\ Cardinality(Registrations(net'.handles)) = 1
       /\ (net'.last.op = "stop_mdns" /\ MdnsStopped) =>
              /\ server' = server
              /\ net'.handles = net.handles
       /\ (net'.last.op \in {"start_mdns", "stop_mdns"} /\ ~server.enable_mdns) =>
              /\ server' = server
              /\ net'.handles = net.handles]_vars

\* C28: no start_mdns or stop_mdns call lets an exception out, and the
\* discovery and AgentCard requests are answered in every state, also after
\* a failed start.
C28_MdnsNeverRaises ==
    /\ net.last.op \in {"start_mdns", "stop_mdns"} => ~net.last.raised
    /\ net.last.op \in {"discovery", "agent_card"} =>
          ~net.last.raised /\ net.last.response # <<>>


\* C30: when the user agent has handled a service found through mDNS, it has
\* made exactly one HTTP request, the GET of the card URL built from the TXT
\* record path, none to the service's /.well-known/lad/agents, and an agent
\* it built carries the name of the fetched card.
C30_OneRequestPerMdnsService ==
    ua.pc = "handled" =>
        LET service == ua.services[ua.i]
        IN  /\ ua.requests = <<service.agent_card_url>>
            /\ \A k \in 1..Len(ua.requests) : ua.requests[k] # UaDiscoveryUrl(service.url)
            /\ ua.card_name # <<>> => ua.agent # <<>> /\ ua.agent[1].name = ua.card_name[1]


\* The list the discover_mdns call of the run returned.
MdnsReturned == lookups[Len(lookups)].returned

\* The k-th callback was an announcement with host and port.
Announced(k) ==
    LET e == clock.heard[k].event
    IN  e.op = "add" /\ e.info.found /\ e.info.addresses # <<>>

\* A later callback of the given kind on the service of the k-th callback.
LaterOn(k, op) ==
    \E j \in (k + 1)..Len(clock.heard) :
        /\ clock.heard[j].event.op = op
        /\ clock.heard[j].event.name = clock.heard[k].event.name

\* C31: discover_mdns returns its list only once the whole mdns_timeout window
\* has elapsed since browsing started, whether no, one or several announcements
\* arrived in it, and every announcement that arrived in the window with host
\* and port and was not removed afterwards is in the list returned.
C31_WholeWindowThenAllAnnounced ==
    clock.returned # <<>> /\ clock.started # <<>> =>
        /\ clock.returned[1] - clock.started[1] >= clock.mdns_timeout
        /\ \A k \in 1..Len(clock.heard) :
              Announced(k) /\ ~LaterOn(k, "remove") =>
                  \E i \in 1..Len(MdnsReturned) :
                      /\ MdnsReturned[i].name = AgentNameOf(clock.heard[k].event.name)
                      /\ ~LaterOn(k, "update") =>
                            MdnsReturned[i].agent_card_url =
                                ServiceUrl(UseHttps(args.fallback_url),
                                           clock.heard[k].event.info)

\* Two services announced themselves, the first as soon as browsing started,
\* and the call returned both two ticks after it started browsing.
C31_Witness ==
    /\ clock.returned # <<>> /\ clock.started # <<>>
    /\ clock.mdns_timeout = 2
    /\ Len(clock.heard) = 2
    /\ Announced(1) /\ Announced(2)
    /\ clock.heard[1].at = clock.started[1]
    /\ clock.heard[1].event.name # clock.heard[2].event.name
    /\ Len(MdnsReturned) = 2


\* C32: once discover_mdns has opened the multicast handle, the handle is
\* closed before the call returns, on normal completion, with no results and
\* when browsing raised; and after the call has returned no listener callback
\* runs any more, so the agents it returned stay as they were returned.
C32_HandleClosedOnReturn ==
    /\ [](clock.returned # <<>> => zc # "open")
    /\ [][clock.returned # <<>> => clock'.heard = clock.heard /\ heap' = heap]_vars

\* The call returned an announced agent with the handle closed, and time has
\* passed since.
C32_Witness ==
    /\ clock.returned # <<>> /\ clock.started # <<>>
    /\ zc = "closed"
    /\ Len(MdnsReturned) >= 1
    /\ clock.now > clock.returned[1]


\* C33: when stop_mdns has returned, every multicast handle start_mdns opened
\* is closed, also when registering the service failed inside start_mdns and
\* when unregistering it raised inside stop_mdns.  Stated for the servers
\* whose start_mdns ran to its end and was called once.
C33_StopClosesEveryHandle ==
    /\ net.last.op = "stop_mdns" /\ ~net.last.raised
    /\ server.service_info # <<>> /\ Len(net.handles) = 1
    => OpenHandles(net.handles) = {}


\* The server was constructed with signing enabled, and the signing module was
\* not available, no private_key_path was given or the key file did not exist.
ConstructedWithoutSigningMeans ==
    /\ server.constructed.signing = "enabled"
    /\ \/ ~server.constructed.available
       \/ server.constructed.keyfile \in {"missing", "no_path"}

\* C34: a LADServer constructed with signing enabled and the private key path
\* or file missing, or the signing module missing, is constructed with signing
\* disabled: from then on get_signed_agent_card() returns None and the card
\* endpoint serves the plain JSON card whatever the Accept header.
C34_SigningDisabledAtConstruction ==
    ConstructedWithoutSigningMeans =>
        /\ ~server.signing_config[1].enabled
        /\ GetSignedAgentCard(server, net) = <<>>
        /\ \A a \in AcceptHeaders :
              AgentCardEndpoint(server, net, a) =
                  HttpResponse("application/json", GetAgentCard(server))
        /\ net.last.op = "agent_card" =>
              /\ ~net.last.raised
              /\ net.last.response[1].media_type = "application/json"

\* A server constructed with signing enabled while its key file was missing
\* answered a request for application/jose after the key file was put in place.
C34_Witness ==
    /\ ConstructedWithoutSigningMeans
    /\ server.constructed.available
    /\ net.keyfile = "ok"
    /\ net.last.op = "agent_card"
    /\ net.last.accept = <<AppJose>>
    /\ net.last.response = <<HttpResponse("application/json", GetAgentCard(server))>>


\* C35: an update event that changes an entry's agent_card_url leaves the
\* entry as add_service would have made it at the new URL: verified false,
\* verification_method none, verification_error none and agent_card none.
C35_UpdateResetsAllVerification ==
    [][lastEvent'.op = "update" /\ nEvents' = nEvents + 1 =>
          LET id == listener.by_name[lastEvent'.name]
              url == EventUrl(lastEvent'.info)
          IN  id # 0 /\ url # <<>> /\ url # <<heap[id].agent_card_url>> =>
                  heap'[id] = DiscoveredAgent(heap[id].name, url[1], heap[id].source,
                                              FALSE, None)]_vars


\* C36: the name the domain check compares the organization with is the host
\* of agent_card_url, the host the card was fetched from, for every shape of
\* URL: with or without a port, with or without a userinfo part.
C36_DomainCheckUsesUrlHost ==
    (LastReachedDomainCheck /\ LastHandled.agent.agent_card # <<>>) =>
        Lower(CardDomain(lastFetch.pre.agent_card_url)) = Hostname(lastFetch.pre.agent_card_url)


\* C37: within a discover() call result.discovery_method is assigned at most
\* once, by the lookup stage that yielded agents and to the name of that
\* stage; card fetching, the require_verified filter and the consent gate never
\* change it; and every agent of result.agents has the source that
\* result.discovery_method names, so no result mixes mDNS and well-known agents.
C37_DiscoveryMethodSetOnce ==
    /\ [](\A i \in 1..Len(result.agents) :
             heap[result.agents[i]].source = result.discovery_method)
    /\ [][(pc # "idle" /\ result'.discovery_method # result.discovery_method) =>
              /\ result.discovery_method = "none"
              /\ result.agents = <<>> /\ result'.agents # <<>>
              /\ \/ pc = "mdns_window" /\ result'.discovery_method = "mdns"
                 \/ pc = "wellknown" /\ result'.discovery_method = "wellknown"]_vars

\* discover_with_consent returned well-known agents after an mDNS window that
\* saw an announcement and its removal, with cards fetched, the filter applied
\* and consent given.
C37_Witness ==
    /\ pc = "done"
    /\ args.consent # "off" /\ args.require_verified /\ args.fetch_cards
    /\ Len(lookups) = 2 /\ lookups[1].stage = "mdns"
    /\ fetchLog # <<>>
    /\ result.agents # <<>>
    /\ result.discovery_method = "wellknown"
    /\ Len(result.agents) < Len(preFilter)


\* C38: over any sequence of fetch_agent_card calls on an agent, an agent that
\* is verified with verification_method jws holds the card of a token whose
\* signature verified: a call that stores another card leaves the agent
\* verified by jws only if that card came out of a token it verified.
C38_JwsCardComesFromVerifiedToken ==
    [][LET a == heap'[1]
           r == lastFetch'.resp
       IN  (/\ pc = "direct"
            /\ a.verified /\ a.verification_method = "jws"
            /\ a.agent_card # heap[1].agent_card) =>
               /\ r.kind = "jose"
               /\ LET v == VerifyAgentCard(r.token, client.signing_public_key)
                  IN  ~v.raised /\ v.valid /\ a.agent_card = v.agent_card]_vars

====
